---- MODULE Spec2Model ----
(***************************************************************************)
(* Crawl orchestrator of the SEO dashboard backend                         *)
(* (backend/app/crawler/crawler.py, CrawlerService.run_crawl) as a state   *)
(* machine: one CrawlJob, its BFS queue, visited set, link-validation      *)
(* cache, the records it writes through the SQLModel session, the events   *)
(* it publishes and the webhook notifications it dispatches.  The units    *)
(* the orchestrator is built from (the Analyzer and its rules, the         *)
(* ProxyPool and the Fetcher of backend/app/crawler) have specifications   *)
(* of their own further down, as have the event broker                     *)
(* (backend/app/crawler/events.py) and the progress stream of              *)
(* backend/app/api/endpoints/crawls.py.                                    *)
(***************************************************************************)
EXTENDS Integers, Sequences, FiniteSets, TLC

\* ------------------------------------------------------------------ bounds
\* largest max_pages argument a caller passes to run_crawl
MaxPagesArg == 2
\* configured default page budget (runtime.default_crawl_max_pages), scaled down
DefaultCrawlMaxPages == 1
\* internal links the parser returns for one page
MaxLinks == 2
\* <loc> entries of the sitemap document
MaxSitemapLocs == 1
\* nested calls of _extract_urls_from_sitemap the interpreter allows
RecursionLimit == 3
\* headings of a page's outline
MaxHeadings == 3
\* load times tried on either side of each threshold of the page-load rule
LoadTimeMargin == 1
\* entries of a proxy pool
MaxProxies == 2
\* largest max_failures of a proxy
MaxFailuresCeiling == 2
\* report_failure calls for one proxy URL between two resets of its count
MaxFailureReports == 4
\* largest max_retries of a Fetcher
MaxRetries == 2
\* largest delay of a Fetcher, in half seconds
MaxDelay == 2
\* subscriber queues created on the broker
MaxChannels == 3
\* publish calls made on the broker looked at on its own
MaxPublishes == 2

\* ------------------------------------------------------------- vocabulary
\* Python's None for an Optional[int]
None == -1
\* a parse_result key that holds a list: not assigned yet (dict.get returns
\* None), or assigned
Unset == [set |-> FALSE, items |-> <<>>]
Assigned(items) == [set |-> TRUE, items |-> items]
\* internal_link_validation_cache.get returned None
Miss == [status |-> None, hops |-> -1]

\* A URL "<scheme><netloc><path>" is a record of its scheme ("" when the
\* string has none), its netloc, a sequence of labels (<<"www.", "a.com">> is
\* www.a.com), and its path, a sequence of characters and segments
\* (<<"/", "x", "/">> is /x/).
Url(scheme, netloc, path) == [scheme |-> scheme, netloc |-> netloc, path |-> path]

Bare == <<"a.com">>
Www == <<"www.", "a.com">>
Foreign == <<"b.com">>
\* URLs of the crawled site that its pages link to
SiteUrls == {Url("https://", Bare, <<"/">>), Url("https://", Www, <<"/", "x">>)}
\* URLs a sitemap document may list (another domain included)
SitemapLocUrls == {Url("https://", Bare, <<"/">>), Url("https://", Foreign, <<"/">>)}
\* project.domain as stored: with or without the http(s) scheme
ProjectDomains == {Url("", Bare, <<>>), Url("https://", Www, <<"/">>)}
AllUrls == SiteUrls \cup SitemapLocUrls
             \cup {[d EXCEPT !.scheme = "https://"] : d \in ProjectDomains}

\* str.rstrip('/') on a sequence of characters
RECURSIVE RStrip(_)
RStrip(s) ==
  IF s = <<>> THEN <<>>
  ELSE IF s[Len(s)] = "/" THEN RStrip(SubSeq(s, 1, Len(s) - 1))
  ELSE s

\* CrawlerService._normalize_url: url.rstrip('/')
normalize_url(url) == [url EXCEPT !.path = RStrip(url.path)]

\* netloc[4:] if netloc.startswith('www.') else netloc
StripWww(netloc) ==
  IF netloc # <<>> /\ Head(netloc) = "www." THEN Tail(netloc) ELSE netloc

\* CrawlerService._same_domain
same_domain_any(url, base_domain) == TRUE
same_domain(url, base_domain) == StripWww(url.netloc) = base_domain

\* sequences over S of length at most n
RECURSIVE SeqsUpTo(_, _)
SeqsUpTo(S, n) ==
  IF n = 0 THEN {<<>>}
  ELSE LET shorter == SeqsUpTo(S, n - 1)
       IN shorter \cup {Append(q, u) : q \in shorter, u \in S}

\* the links of one page: Parser.parse keeps no URL string twice
DistinctSeqs(S, n) ==
  {q \in SeqsUpTo(S, n) : \A i, j \in 1..Len(q) : i # j => q[i] # q[j]}

\* absolute http(s) targets of the <a href> elements of a page: URLs of the
\* site and a URL of another domain
PageLinkUrls == SiteUrls \cup {Url("https://", Foreign, <<"/">>)}

\* Parser.parse: the links whose netloc, without a leading www., is the netloc
\* of the page's URL without a leading www. are the internal_links
RECURSIVE internal_links(_, _)
internal_links(links, base_url) ==
  IF links = <<>> THEN <<>>
  ELSE (IF StripWww(Head(links).netloc) = StripWww(base_url.netloc)
        THEN <<Head(links)>> ELSE <<>>)
       \o internal_links(Tail(links), base_url)

\* [x for x in s if same_domain(x, base_domain)]
RECURSIVE FilterSameDomain(_, _)
FilterSameDomain(s, base_domain) ==
  IF s = <<>> THEN <<>>
  ELSE IF same_domain(Head(s), base_domain)
       THEN <<Head(s)>> \o FilterSameDomain(Tail(s), base_domain)
       ELSE FilterSameDomain(Tail(s), base_domain)

\* max_pages or runtime.default_crawl_max_pages; then max(1, .)
EffectiveBudget(max_pages, default) ==
  LET chosen == IF max_pages = None \/ max_pages = 0 THEN default ELSE max_pages
  IN IF chosen < 1 THEN 1 ELSE chosen

\* values of the max_pages argument: absent, zero, negative, positive
MaxPagesArgs == {None, 0, -2} \cup (1..MaxPagesArg)

\* the sitemap URLs of the site: the sitemap_url argument and one more
SitemapUrl == "/sitemap.xml"
SitemapNames == {SitemapUrl, "/sitemap-pages.xml"}

\* what fetching and parsing one sitemap URL yields: a failed fetch or parse,
\* a urlset document with its <loc> entries, or a sitemapindex document whose
\* <loc> entries are sitemap URLs
FailedDoc == [ok |-> FALSE, tag |-> "none", locs |-> <<>>]
UrlSet(locs) == [ok |-> TRUE, tag |-> "urlset", locs |-> locs]
SitemapIndex(locs) == [ok |-> TRUE, tag |-> "sitemapindex", locs |-> locs]
SitemapDocs ==
  {FailedDoc}
  \cup {UrlSet(l) : l \in SeqsUpTo(SitemapLocUrls, MaxSitemapLocs)}
  \cup {SitemapIndex(l) : l \in SeqsUpTo(SitemapNames, MaxSitemapLocs)}

\* the sitemap_url argument (given or not) and the documents behind the
\* site's sitemap URLs
SitemapInputs ==
  {[given |-> FALSE, docs |-> [n \in SitemapNames |-> FailedDoc]]}
  \cup {[given |-> TRUE, docs |-> d] : d \in [SitemapNames -> SitemapDocs]}

\* urls.extend over the results of the nested calls; an exception of one
\* call ends the loop
Extended(first, rest) ==
  IF first.raised \/ rest.raised THEN [raised |-> TRUE, urls |-> <<>>]
  ELSE [raised |-> FALSE, urls |-> first.urls \o rest.urls]

\* CrawlerService._extract_urls_from_sitemap, called at depth frames of
\* itself; beyond the interpreter's recursion limit the call raises
\* RecursionError.  ExtractAll is its loop over the <loc> entries of a
\* sitemapindex.
RECURSIVE extract_urls_from_sitemap(_, _, _, _)
RECURSIVE ExtractAll(_, _, _, _)
extract_urls_from_sitemap(docs, sitemap_url, base_domain, depth) ==
  IF depth > RecursionLimit THEN [raised |-> TRUE, urls |-> <<>>]
  ELSE LET doc == docs[sitemap_url]
       IN IF ~doc.ok THEN [raised |-> FALSE, urls |-> <<>>]
          ELSE IF doc.tag = "urlset"
               THEN [raised |-> FALSE, urls |-> FilterSameDomain(doc.locs, base_domain)]
               ELSE ExtractAll(docs, doc.locs, base_domain, depth + 1)
ExtractAll(docs, locs, base_domain, depth) ==
  IF locs = <<>> THEN [raised |-> FALSE, urls |-> <<>>]
  ELSE Extended(extract_urls_from_sitemap(docs, Head(locs), base_domain, depth),
                ExtractAll(docs, Tail(locs), base_domain, depth))

\* no URL: None or the empty string
NoUrl == Url("", <<>>, <<>>)

\* The signals record (page_data) the rules read.  title is the length of
\* the title (0: None or empty); description, h1, viewport and
\* schema_org_json_ld tell whether the value is non-empty; images_without_alt
\* and structured_data_errors are the lengths of the lists; heading_outline
\* is the sequence of the headings' levels; cls is in thousandths (0.25 is
\* 250); response_headers is the set of the lower-cased header names.
\* PageOf is a page at url for which no rule has a finding.
PageOf(url) ==
  [title |-> 20, description |-> TRUE, h1 |-> TRUE, images_without_alt |-> 0,
   canonical |-> url, url |-> url, heading_outline |-> <<1, 2>>,
   invalid_internal_links |-> Unset, redirect_hops |-> 0,
   internal_links_with_redirect_chain |-> Unset, viewport |-> TRUE,
   lcp_ms |-> None, fcp_ms |-> None, cls |-> None,
   structured_data_errors |-> 0, schema_org_json_ld |-> TRUE,
   noindex |-> FALSE, nofollow |-> FALSE,
   response_headers |-> {"strict-transport-security", "content-security-policy"}]

\* the locals of a loop iteration while no page is being processed
NoPage ==
  [active |-> FALSE, url |-> NoUrl, status_code |-> 0, load_time |-> 0,
   links |-> <<>>, i |-> 1, invalid_internal_links |-> <<>>,
   internal_links_with_redirect_chain |-> <<>>,
   parse_result |-> PageOf(NoUrl),
   analyzed |-> [called |-> FALSE, page_data |-> PageOf(NoUrl)],
   issues |-> <<>>]

(***************************************************************************)
(* State                                                                   *)
(***************************************************************************)
VARIABLES
  pc,            \* position of run_crawl
  project,       \* project.domain of the job's project
  crawl,         \* the Crawl object held by the session (in memory)
  db,            \* committed rows: the Crawl row and the record counts
  session,       \* records added to the session and not yet committed
  start_url, base_domain, crawl_max_pages, robots,
  queue, visited,
  pages_processed, issues_found, error_count,
  internal_link_validation_cache,
  critical_issue_alert_sent,
  cur,           \* the page being processed (locals of one loop iteration)
  events,        \* events handed to crawl_event_broker.publish, in order
  webhooks,      \* calls of webhook_service.dispatch_event, in order
  trace,         \* history: fetches, page records, enqueues, verifications per URL
  analyzer,      \* one call of Analyzer.analyze or of a rule: arguments and result
  proxy_pool,    \* a ProxyPool: its ProxyConfig entries and what next() returned
  fetcher,       \* a Fetcher: configuration, clock, throttle state, requests issued
  broker,        \* crawl_event_broker: subscriber lists, their queues, a publish in flight
  stream         \* one client of GET /crawls/{crawl_id}/events: its generator's state

\* the units, which run_crawl's model leaves alone
units == <<analyzer, proxy_pool, fetcher, broker, stream>>

\* what a step of run_crawl that publishes an event leaves alone
bystanders == <<analyzer, proxy_pool, fetcher, stream>>

\* the state of run_crawl, which the units' specifications leave alone
job == <<pc, project, crawl, db, session, start_url, base_domain, crawl_max_pages,
         robots, queue, visited, pages_processed, issues_found, error_count,
         internal_link_validation_cache, critical_issue_alert_sent, cur, events,
         webhooks, trace>>

vars == <<pc, project, crawl, db, session, start_url, base_domain, crawl_max_pages,
          robots, queue, visited, pages_processed, issues_found, error_count,
          internal_link_validation_cache, critical_issue_alert_sent, cur, events,
          webhooks, trace, analyzer, proxy_pool, fetcher, broker, stream>>

ZeroCount == [u \in AllUrls |-> 0]
Bump(f, u) == [f EXCEPT ![u] = @ + 1]
\* add one to the count of every element of the sequence s
RECURSIVE BumpAll(_, _)
BumpAll(f, s) == IF s = <<>> THEN f ELSE BumpAll(Bump(f, Head(s)), Tail(s))

\* no call made, no pool and no Fetcher constructed
NotInUse == [in_use |-> FALSE]

(***************************************************************************)
(* crawl_event_broker (events.py): a dict from crawl id to a list of       *)
(* queue.Queue objects.  A queue is known by its position in               *)
(* broker.queues; besides its items it remembers which crawl id it was     *)
(* subscribed with, every event ever put on it, and whether its            *)
(* unsubscribe call has returned.                                          *)
(***************************************************************************)
\* the id of the job run_crawl is called for, and the ids jobs have
CrawlId == 1
CrawlIds == {1, 2}

\* queue.Queue(): maxsize 0, which is no limit
NewQueue(crawl_id) ==
  [maxsize |-> 0, items |-> <<>>, crawl_id |-> crawl_id, put |-> <<>>, dropped |-> <<>>,
   unsubscribed |-> FALSE, late |-> <<>>]

\* no publish call is running
NoPublish == [active |-> FALSE, event |-> [type |-> "none"], todo |-> <<>>,
              subscribed |-> {}]

\* CrawlEventBroker(): no subscribers
NewBroker == [subscribers |-> [j \in CrawlIds |-> <<>>], queues |-> <<>>,
              publishing |-> NoPublish, published |-> 0, returned |-> {}]

\* Queue.full() as put_nowait tests it
Full(q) == q.maxsize > 0 /\ Len(q.items) >= q.maxsize

\* subscriber.put_nowait(event) inside try/except queue.Full: continue
put_nowait(q, event) ==
  IF Full(q)
  THEN [q EXCEPT !.dropped = Append(@, event)]
  ELSE [q EXCEPT !.items = Append(@, event), !.put = Append(@, event),
                 !.late = IF q.unsubscribed THEN Append(@, event) ELSE @]

\* subscribe(crawl_id): a new queue, appended to the list of the crawl id
subscribe(b, crawl_id) ==
  [b EXCEPT !.subscribers[crawl_id] = Append(@, Len(b.queues) + 1),
            !.queues = Append(@, NewQueue(crawl_id))]

\* list.remove: the first occurrence goes
RECURSIVE Remove(_, _)
Remove(list, x) ==
  IF list = <<>> THEN <<>>
  ELSE IF Head(list) = x THEN Tail(list)
       ELSE <<Head(list)>> \o Remove(Tail(list), x)

\* x in list
In(x, list) == \E i \in 1..Len(list) : list[i] = x

\* unsubscribe(crawl_id, subscriber) up to its return
unsubscribe(b, crawl_id, c) ==
  LET subscribers == b.subscribers[crawl_id]
      left == IF subscribers = <<>> THEN <<>>
              ELSE IF In(c, subscribers) THEN Remove(subscribers, c) ELSE subscribers
  IN [b EXCEPT !.subscribers[crawl_id] = left, !.queues[c].unsubscribed = TRUE]

\* the snapshot of every list, whatever the crawl id
snapshot_all(b, crawl_id) ==
  LET all == {c \in 1..Len(b.queues) : \E j \in CrawlIds : In(c, b.subscribers[j])}
      RECURSIVE AsSeq(_)
      AsSeq(S) == IF S = {} THEN <<>>
                  ELSE LET c == CHOOSE x \in S : \A y \in S : x <= y
                       IN <<c>> \o AsSeq(S \ {c})
  IN AsSeq(all)

\* list(self._subscribers.get(crawl_id, [])), taken under the lock
snapshot(b, crawl_id) == b.subscribers[crawl_id]

\* for subscriber in subscribers: put_nowait, from first to last
RECURSIVE PutAll(_, _, _)
PutAll(queues, todo, event) ==
  IF todo = <<>> THEN queues
  ELSE PutAll([queues EXCEPT ![Head(todo)] = put_nowait(@, event)], Tail(todo), event)

\* publish(crawl_id, event) as one step
publish(b, crawl_id, event) ==
  [b EXCEPT !.queues = PutAll(@, snapshot(b, crawl_id), event)]

\* a pending Crawl row was committed and run_crawl scheduled for it
JobCreated ==
  /\ pc = "pending"
  /\ project \in ProjectDomains
  /\ crawl = [status |-> "pending", end_time |-> FALSE, total_pages |-> 0, issues_count |-> 0]
  /\ db = [crawl |-> crawl, pages |-> 0, links |-> 0, issues |-> 0]
  /\ session = [links |-> 0, issues |-> 0]
  /\ start_url = project
  /\ base_domain = <<>>
  /\ crawl_max_pages = 0
  /\ robots = FALSE
  /\ queue = <<>>
  /\ visited = {}
  /\ pages_processed = 0
  /\ issues_found = 0
  /\ error_count = 0
  /\ internal_link_validation_cache = [u \in {} |-> 0]
  /\ critical_issue_alert_sent = FALSE
  /\ cur = NoPage
  /\ events = <<>>
  /\ webhooks = <<>>
  /\ trace = [fetches |-> ZeroCount, pages |-> ZeroCount, enqueues |-> ZeroCount,
              verifies |-> ZeroCount, cache_hits |-> {}, criticals |-> 0,
              first_critical |-> <<>>, last_fetch |-> "none", disallowed |-> {}]

\* the job as it is while a unit is looked at on its own
JobIdle == JobCreated /\ project = Url("", Bare, <<>>)

Init ==
  /\ JobCreated
  /\ analyzer = NotInUse
  /\ proxy_pool = NotInUse
  /\ fetcher = NotInUse
  /\ broker = NewBroker
  /\ stream = NotInUse

\* run_crawl up to the loop: mark running, resolve the start URL, compute the
\* budget, publish crawl_started, seed the queue, load robots.txt
StartCrawl(max_pages, sitemap, robots_loaded) ==
  /\ pc = "pending"
  /\ LET s_url == IF project.scheme = "" THEN [project EXCEPT !.scheme = "https://"]
                  ELSE project
         b_dom == StripWww(s_url.netloc)
         budget == EffectiveBudget(max_pages, DefaultCrawlMaxPages)
         extracted == IF sitemap.given
                      THEN extract_urls_from_sitemap(sitemap.docs, SitemapUrl, b_dom, 1)
                      ELSE [raised |-> FALSE, urls |-> <<>>]
         sitemap_urls == extracted.urls
     IN /\ ~extracted.raised
        /\ crawl' = [crawl EXCEPT !.status = "running"]
        /\ db' = [db EXCEPT !.crawl = crawl']
        /\ start_url' = s_url
        /\ base_domain' = b_dom
        /\ crawl_max_pages' = budget
        /\ events' = Append(events, [type |-> "crawl_started", crawl_id |-> CrawlId, status |-> "running",
                                     max_pages |-> budget, pages_processed |-> 0,
                                     error_count |-> 0])
        /\ queue' = <<s_url>> \o sitemap_urls
        /\ trace' = [trace EXCEPT !.enqueues = BumpAll(@, <<s_url>> \o sitemap_urls)]
  /\ robots' = robots_loaded
  /\ visited' = {}
  /\ pages_processed' = 0
  /\ issues_found' = 0
  /\ error_count' = 0
  /\ internal_link_validation_cache' = [u \in {} |-> 0]
  /\ critical_issue_alert_sent' = FALSE
  /\ pc' = "loop"
  /\ broker' = publish(broker, CrawlId, events'[Len(events')])
  /\ UNCHANGED bystanders
  /\ UNCHANGED <<project, session, cur, webhooks>>

\* the statements between the commit of `running` and the try block that
\* can raise: the lazy load of crawl.project, the settings row read by
\* get_runtime_settings, the sitemap flattening
PreLoopSteps == {"crawl.project", "get_runtime_settings", "_extract_urls_from_sitemap"}

\* run_crawl marks the job running and commits, then a statement before the
\* try block raises: the exception leaves run_crawl (and the session's with
\* block), nothing catches it.  crawl_started is published before the
\* sitemap is read and after the project and the settings are.
StartCrawlRaises(step, max_pages, sitemap) ==
  /\ pc = "pending"
  /\ step \in PreLoopSteps
  /\ LET s_url == IF project.scheme = "" THEN [project EXCEPT !.scheme = "https://"]
                  ELSE project
         b_dom == StripWww(s_url.netloc)
         budget == EffectiveBudget(max_pages, DefaultCrawlMaxPages)
         started == step = "_extract_urls_from_sitemap"
     IN /\ started =>
             /\ sitemap.given
             /\ extract_urls_from_sitemap(sitemap.docs, SitemapUrl, b_dom, 1).raised
        /\ crawl' = [crawl EXCEPT !.status = "running"]
        /\ db' = [db EXCEPT !.crawl = crawl']
        /\ start_url' = IF step = "crawl.project" THEN start_url ELSE s_url
        /\ base_domain' = IF step = "crawl.project" THEN base_domain ELSE b_dom
        /\ crawl_max_pages' = IF started THEN budget ELSE crawl_max_pages
        /\ events' = IF started
                     THEN Append(events, [type |-> "crawl_started", crawl_id |-> CrawlId,
                                          status |-> "running", max_pages |-> budget,
                                          pages_processed |-> 0, error_count |-> 0])
                     ELSE events
        /\ broker' = IF started THEN publish(broker, CrawlId, events'[Len(events')])
                     ELSE broker
        /\ queue' = IF started THEN <<s_url>> ELSE queue
        /\ trace' = IF started THEN [trace EXCEPT !.enqueues = Bump(@, s_url)] ELSE trace
  /\ pc' = "raised"
  /\ UNCHANGED bystanders
  /\ UNCHANGED <<project, session, robots, visited, pages_processed, issues_found,
                 error_count, internal_link_validation_cache,
                 critical_issue_alert_sent, cur, webhooks>>

(***************************************************************************)
(* The environment: what a fetch, a link verification and robots.txt       *)
(* answer.                                                                 *)
(***************************************************************************)
\* fetcher.fetch returned (None, 0)
NoResponse == [kind |-> "none", status_code |-> 0, load_time |-> 0, lcp_ms |-> None,
               history |-> 0]
\* responses of the plain HTTP path (requests.Response) and of the headless
\* path (PlaywrightResponse), with the measured load time and the LCP the
\* performance adapter reports for the page (None: unavailable)
Responses ==
  {[kind |-> "requests", status_code |-> 200, load_time |-> 100, lcp_ms |-> None,
    history |-> 0],
   [kind |-> "requests", status_code |-> 200, load_time |-> 4000, lcp_ms |-> 5000,
    history |-> 0],
   [kind |-> "requests", status_code |-> 404, load_time |-> 100, lcp_ms |-> None,
    history |-> 0],
   [kind |-> "playwright", status_code |-> 404, load_time |-> 100, lcp_ms |-> None,
    history |-> 2]}
FetchOutcomes == {NoResponse} \cup Responses

\* `not response`: None, or a requests.Response whose bool() is its .ok
ResponseFalsy(resp) ==
  resp.kind = "none" \/ (resp.kind = "requests" /\ resp.status_code >= 400)

\* answers of one HEAD or GET of the link verification: an exception, or a
\* status code with the length of response.history
HttpAnswers == {[exc |-> TRUE, status_code |-> 0, hops |-> 0]}
  \cup {[exc |-> FALSE, status_code |-> 200, hops |-> 0],
        [exc |-> FALSE, status_code |-> 404, hops |-> 2]}

\* CrawlerService._verify_internal_link: HEAD, then GET on >= 400, (None, 0)
\* on any exception
verify_internal_link(head, get) ==
  IF head.exc THEN [status |-> None, hops |-> 0]
  ELSE IF head.status_code >= 400 \/ head.status_code = 405
       THEN IF get.exc THEN [status |-> None, hops |-> 0]
            ELSE [status |-> get.status_code, hops |-> get.hops]
       ELSE [status |-> head.status_code, hops |-> head.hops]

(***************************************************************************)
(* The BFS loop                                                            *)
(***************************************************************************)
\* while queue and pages_processed < crawl_max_pages
LoopCondInclusive == queue # <<>> /\ pages_processed <= crawl_max_pages
LoopCond == queue # <<>> /\ pages_processed < crawl_max_pages

\* normalized_url in visited
AlreadyVisitedRaw(url, seen) == url \in seen
AlreadyVisited(url, seen) == normalize_url(url) \in seen

\* the visited URL is skipped
DequeueVisited ==
  /\ pc = "loop" /\ LoopCond
  /\ AlreadyVisited(Head(queue), visited)
  /\ queue' = Tail(queue)
  /\ UNCHANGED units
  /\ UNCHANGED <<pc, project, crawl, db, session, start_url, base_domain,
                 crawl_max_pages, robots, visited, pages_processed, issues_found,
                 error_count, internal_link_validation_cache,
                 critical_issue_alert_sent, cur, events, webhooks, trace>>

\* robots.txt was loaded and robots.can_fetch(crawler_user_agent, url) is
\* False: mark visited, skip.  The answer is asked for at most once per
\* normalized URL, so it is drawn when it is asked for.
DequeueDisallowedUnmarked ==
  /\ pc = "loop" /\ LoopCond
  /\ ~AlreadyVisited(Head(queue), visited)
  /\ robots
  /\ queue' = Tail(queue)
  /\ trace' = [trace EXCEPT !.disallowed = @ \cup {Head(queue)}]
  /\ UNCHANGED units
  /\ UNCHANGED <<pc, project, crawl, db, session, start_url, base_domain,
                 crawl_max_pages, robots, visited, pages_processed, issues_found,
                 error_count, internal_link_validation_cache,
                 critical_issue_alert_sent, cur, events, webhooks>>
DequeueDisallowed ==
  /\ pc = "loop" /\ LoopCond
  /\ ~AlreadyVisited(Head(queue), visited)
  /\ robots
  /\ queue' = Tail(queue)
  /\ visited' = visited \cup {normalize_url(Head(queue))}
  /\ trace' = [trace EXCEPT !.disallowed = @ \cup {Head(queue)}]
  /\ UNCHANGED units
  /\ UNCHANGED <<pc, project, crawl, db, session, start_url, base_domain,
                 crawl_max_pages, robots, pages_processed, issues_found,
                 error_count, internal_link_validation_cache,
                 critical_issue_alert_sent, cur, events, webhooks>>

\* the crawl_error event of a failed fetch
ErrorEventAsFailure(url, errors) ==
  [type |-> "crawl_failed", crawl_id |-> CrawlId, status |-> crawl.status, current_url |-> url,
   pages_processed |-> pages_processed, max_pages |-> crawl_max_pages,
   error_count |-> errors]
ErrorEvent(url, errors) ==
  [type |-> "crawl_error", crawl_id |-> CrawlId, status |-> crawl.status, current_url |-> url,
   pages_processed |-> pages_processed, max_pages |-> crawl_max_pages,
   error_count |-> errors]

\* the fetch yields nothing usable: count the error, publish crawl_error, continue
FetchFailedSilent(resp) ==
  /\ pc = "loop" /\ LoopCond
  /\ ~AlreadyVisited(Head(queue), visited)
  /\ ResponseFalsy(resp)
  /\ queue' = Tail(queue)
  /\ visited' = visited \cup {normalize_url(Head(queue)), Head(queue)}
  /\ trace' = [trace EXCEPT !.fetches = Bump(@, Head(queue)),
                            !.last_fetch = resp.kind]
  /\ UNCHANGED units
  /\ UNCHANGED <<pc, project, crawl, db, session, start_url, base_domain,
                 crawl_max_pages, robots, pages_processed, issues_found, error_count,
                 internal_link_validation_cache, critical_issue_alert_sent, cur,
                 events, webhooks>>
\* a failed fetch that puts the URL back at the end of the queue
FetchFailedRequeues(resp) ==
  /\ pc = "loop" /\ LoopCond
  /\ ~AlreadyVisited(Head(queue), visited)
  /\ ResponseFalsy(resp)
  /\ queue' = Append(Tail(queue), Head(queue))
  /\ error_count' = error_count + 1
  /\ events' = Append(events, ErrorEvent(Head(queue), error_count + 1))
  /\ trace' = [trace EXCEPT !.fetches = Bump(@, Head(queue)),
                            !.last_fetch = resp.kind]
  /\ broker' = publish(broker, CrawlId, events'[Len(events')])
  /\ UNCHANGED bystanders
  /\ UNCHANGED <<pc, project, crawl, db, session, start_url, base_domain,
                 crawl_max_pages, robots, visited, pages_processed, issues_found,
                 internal_link_validation_cache, critical_issue_alert_sent, cur,
                 webhooks>>
FetchFailed(resp) ==
  /\ pc = "loop" /\ LoopCond
  /\ ~AlreadyVisited(Head(queue), visited)
  /\ ResponseFalsy(resp)
  /\ queue' = Tail(queue)
  /\ visited' = visited \cup {normalize_url(Head(queue)), Head(queue)}
  /\ error_count' = error_count + 1
  /\ events' = Append(events, ErrorEvent(Head(queue), error_count + 1))
  /\ trace' = [trace EXCEPT !.fetches = Bump(@, Head(queue)),
                            !.last_fetch = resp.kind]
  /\ broker' = publish(broker, CrawlId, events'[Len(events')])
  /\ UNCHANGED bystanders
  /\ UNCHANGED <<pc, project, crawl, db, session, start_url, base_domain,
                 crawl_max_pages, robots, pages_processed, issues_found,
                 internal_link_validation_cache, critical_issue_alert_sent, cur,
                 webhooks>>

\* the fetch succeeded: parse the page, whose <a href> targets are links,
\* collect performance metrics, create and commit the Page, start the
\* internal-link loop (the performance snapshot added next to the Page is not
\* tracked)
FetchPage(resp, links) ==
  /\ pc = "loop" /\ LoopCond
  /\ ~AlreadyVisited(Head(queue), visited)
  /\ ~ResponseFalsy(resp)
  /\ queue' = Tail(queue)
  /\ visited' = visited \cup {normalize_url(Head(queue)), Head(queue)}
  /\ db' = [db EXCEPT !.pages = @ + 1, !.links = @ + session.links,
                      !.issues = @ + session.issues]
  /\ session' = [links |-> 0, issues |-> 0]
  /\ cur' = [NoPage EXCEPT
               !.active = TRUE, !.url = Head(queue),
               !.status_code = resp.status_code, !.load_time = resp.load_time,
               !.links = internal_links(links, Head(queue)),
               !.parse_result.url = Head(queue),
               !.parse_result.canonical = Head(queue),
               !.parse_result.lcp_ms = resp.lcp_ms,
               !.parse_result.redirect_hops = resp.history]
  /\ trace' = [trace EXCEPT !.fetches = Bump(@, Head(queue)),
                            !.pages = Bump(@, Head(queue)),
                            !.last_fetch = resp.kind]
  /\ pc' = "links"
  /\ UNCHANGED units
  /\ UNCHANGED <<project, crawl, start_url, base_domain, crawl_max_pages, robots,
                 pages_processed, issues_found, error_count,
                 internal_link_validation_cache, critical_issue_alert_sent, events,
                 webhooks>>

(***************************************************************************)
(* Processing one fetched page                                             *)
(***************************************************************************)
\* internal_link_validation_cache.get(target_url)
CacheLookupFalsy(cache, target) ==
  IF target \in DOMAIN cache /\ cache[target].status # None THEN cache[target]
  ELSE Miss
CacheLookup(cache, target) ==
  IF target \in DOMAIN cache THEN cache[target] ELSE Miss

CachePut(cache, target, result) ==
  [u \in DOMAIN cache \cup {target} |-> IF u = target THEN result ELSE cache[u]]

\* validated_status is None or validated_status >= 400
IsInvalidStatus(status) == status = None \/ status >= 400

\* one iteration of `for link_data in parse_result['internal_links']`: add
\* the Link, look the target up in the cache or verify it, classify it, and
\* enqueue it when it is on the page's domain and not visited
ProcessLink(head, get) ==
  /\ pc = "links"
  /\ cur.i <= Len(cur.links)
  /\ LET target_url == cur.links[cur.i]
         cached == CacheLookup(internal_link_validation_cache, target_url)
         miss == cached = Miss
         result == IF miss THEN verify_internal_link(head, get) ELSE cached
         invalid == IF IsInvalidStatus(result.status)
                    THEN Append(cur.invalid_internal_links,
                                [url |-> target_url, status_code |-> result.status])
                    ELSE cur.invalid_internal_links
         chains == IF result.hops >= 2
                   THEN Append(cur.internal_links_with_redirect_chain,
                               [url |-> target_url, redirect_hops |-> result.hops])
                   ELSE cur.internal_links_with_redirect_chain
         enqueue == /\ StripWww(target_url.netloc) = StripWww(cur.url.netloc)
                    /\ normalize_url(target_url) \notin visited
     IN /\ session' = [session EXCEPT !.links = @ + 1]
        /\ internal_link_validation_cache' =
             IF miss THEN CachePut(internal_link_validation_cache, target_url, result)
             ELSE internal_link_validation_cache
        /\ cur' = [cur EXCEPT !.i = @ + 1, !.invalid_internal_links = invalid,
                              !.internal_links_with_redirect_chain = chains]
        /\ queue' = IF enqueue THEN Append(queue, target_url) ELSE queue
        /\ trace' = [trace EXCEPT
                       !.verifies = IF miss THEN Bump(@, target_url) ELSE @,
                       !.cache_hits = IF miss THEN @ ELSE @ \cup {target_url},
                       !.enqueues = IF enqueue THEN Bump(@, target_url) ELSE @]
  /\ UNCHANGED units
  /\ UNCHANGED <<pc, project, crawl, db, start_url, base_domain, crawl_max_pages,
                 robots, visited, pages_processed, issues_found, error_count,
                 critical_issue_alert_sent, events, webhooks>>

\* after the link loop: attach both lists to parse_result (the external
\* Link records are added next)
AttachLinkListsLate ==
  /\ pc = "links"
  /\ cur.i > Len(cur.links)
  /\ pc' = "analyze"
  /\ UNCHANGED units
  /\ UNCHANGED <<project, crawl, db, session, start_url, base_domain,
                 crawl_max_pages, robots, queue, visited, pages_processed,
                 issues_found, error_count, internal_link_validation_cache,
                 critical_issue_alert_sent, cur, events, webhooks, trace>>
AttachLinkLists ==
  /\ pc = "links"
  /\ cur.i > Len(cur.links)
  /\ cur' = [cur EXCEPT
               !.parse_result.invalid_internal_links =
                  Assigned(cur.invalid_internal_links),
               !.parse_result.internal_links_with_redirect_chain =
                  Assigned(cur.internal_links_with_redirect_chain)]
  /\ pc' = "analyze"
  /\ UNCHANGED units
  /\ UNCHANGED <<project, crawl, db, session, start_url, base_domain,
                 crawl_max_pages, robots, queue, visited, pages_processed,
                 issues_found, error_count, internal_link_validation_cache,
                 critical_issue_alert_sent, events, webhooks, trace>>

\* page_data.get(key) or []
GetOrEmpty(value) == IF value.set THEN value.items ELSE <<>>

Issue(type, severity) == [type |-> type, severity |-> severity]

StatusCodeRule(page_data, status_code, load_time_ms) ==
  IF status_code = 404 THEN <<Issue("technical_seo.http_404_not_found", "critical")>>
  ELSE IF status_code >= 500 THEN <<Issue("technical_seo.http_server_error", "critical")>>
  ELSE <<>>

BasicSeoRule(page_data, status_code, load_time_ms) ==
  (IF page_data.title = 0 THEN <<Issue("content.missing_title", "warning")>>
   ELSE IF page_data.title < 10 THEN <<Issue("content.short_title", "info")>>
   ELSE <<>>)
  \o (IF ~page_data.description
      THEN <<Issue("content.missing_meta_description", "warning")>> ELSE <<>>)
  \o (IF ~page_data.h1 THEN <<Issue("content.missing_h1", "warning")>> ELSE <<>>)
  \o (IF page_data.images_without_alt > 0
      THEN <<Issue("accessibility.missing_image_alt", "warning")>> ELSE <<>>)

\* path.rstrip("/") or "/"
PathOrRoot(path) == IF RStrip(path) = <<>> THEN <<"/">> ELSE RStrip(path)

CanonicalRule(page_data, status_code, load_time_ms) ==
  IF page_data.canonical = NoUrl
  THEN <<Issue("technical_seo.missing_canonical", "info")>>
  ELSE IF page_data.url = NoUrl THEN <<>>
  ELSE IF /\ page_data.canonical.netloc # <<>>
          /\ page_data.canonical.netloc # page_data.url.netloc
       THEN <<Issue("technical_seo.cross_domain_canonical", "warning")>>
       ELSE IF PathOrRoot(page_data.canonical.path) # PathOrRoot(page_data.url.path)
            THEN <<Issue("technical_seo.canonical_mismatch", "warning")>>
            ELSE <<>>

\* the loop of HeadingHierarchyRule.evaluate over the rest of the outline,
\* previous_level being 0 before the first heading
RECURSIVE HeadingLoop(_, _)
HeadingLoop(outline, previous_level) ==
  IF outline = <<>> THEN <<>>
  ELSE IF previous_level # 0 /\ Head(outline) - previous_level > 1
       THEN <<Issue("accessibility.heading_hierarchy_invalid", "warning")>>
       ELSE HeadingLoop(Tail(outline), Head(outline))

\* the same loop with abs(current_level - previous_level) > 1
RECURSIVE HeadingLoopAnyJump(_, _)
HeadingLoopAnyJump(outline, previous_level) ==
  IF outline = <<>> THEN <<>>
  ELSE IF /\ previous_level # 0
          /\ (Head(outline) - previous_level > 1 \/ previous_level - Head(outline) > 1)
       THEN <<Issue("accessibility.heading_hierarchy_invalid", "warning")>>
       ELSE HeadingLoopAnyJump(Tail(outline), Head(outline))

HeadingHierarchyRuleAnyJump(page_data, status_code, load_time_ms) ==
  HeadingLoopAnyJump(page_data.heading_outline, 0)
HeadingHierarchyRule(page_data, status_code, load_time_ms) ==
  HeadingLoop(page_data.heading_outline, 0)

InternalLinkValidityRule(page_data, status_code, load_time_ms) ==
  IF GetOrEmpty(page_data.invalid_internal_links) = <<>> THEN <<>>
  ELSE <<Issue("technical_seo.internal_link_broken", "warning")>>

RedirectChainRule(page_data, status_code, load_time_ms) ==
  (IF page_data.redirect_hops >= 2
   THEN <<Issue("technical_seo.redirect_chain", "warning")>> ELSE <<>>)
  \o (IF GetOrEmpty(page_data.internal_links_with_redirect_chain) # <<>>
      THEN <<Issue("technical_seo.internal_redirect_chain", "info")>> ELSE <<>>)

warning_threshold_ms == 2000
critical_threshold_ms == 4000

PageLoadSpeedRuleExclusive(page_data, status_code, load_time_ms) ==
  IF load_time_ms > critical_threshold_ms
  THEN <<Issue("technical_seo.slow_page_load", "critical")>>
  ELSE IF load_time_ms > warning_threshold_ms
       THEN <<Issue("technical_seo.slow_page_load", "warning")>>
       ELSE <<>>
PageLoadSpeedRule(page_data, status_code, load_time_ms) ==
  IF load_time_ms >= critical_threshold_ms
  THEN <<Issue("technical_seo.slow_page_load", "critical")>>
  ELSE IF load_time_ms >= warning_threshold_ms
       THEN <<Issue("technical_seo.slow_page_load", "warning")>>
       ELSE <<>>

MobileFriendlyRule(page_data, status_code, load_time_ms) ==
  IF page_data.viewport THEN <<>>
  ELSE <<Issue("accessibility.missing_viewport_meta", "warning")>>

CoreWebVitalsRule(page_data, status_code, load_time_ms) ==
  (IF page_data.lcp_ms # None /\ page_data.lcp_ms > 4000
   THEN <<Issue("technical_seo.poor_lcp", "critical")>>
   ELSE IF page_data.lcp_ms # None /\ page_data.lcp_ms > 2500
        THEN <<Issue("technical_seo.needs_improvement_lcp", "warning")>>
        ELSE <<>>)
  \o (IF page_data.fcp_ms # None /\ page_data.fcp_ms > 3000
      THEN <<Issue("technical_seo.poor_fcp", "warning")>> ELSE <<>>)
  \o (IF page_data.cls # None /\ page_data.cls > 250
      THEN <<Issue("technical_seo.poor_cls", "critical")>>
      ELSE IF page_data.cls # None /\ page_data.cls > 100
           THEN <<Issue("technical_seo.needs_improvement_cls", "warning")>>
           ELSE <<>>)

StructuredDataRule(page_data, status_code, load_time_ms) ==
  [k \in 1..page_data.structured_data_errors |->
     Issue("technical_seo.structured_data_invalid", "warning")]
  \o (IF ~page_data.schema_org_json_ld
      THEN <<Issue("technical_seo.structured_data_missing", "info")>> ELSE <<>>)

IndexabilityRule(page_data, status_code, load_time_ms) ==
  (IF page_data.noindex
   THEN <<Issue("technical_seo.noindex_detected", "warning")>> ELSE <<>>)
  \o (IF page_data.nofollow
      THEN <<Issue("technical_seo.nofollow_detected", "info")>> ELSE <<>>)

SecurityRule(page_data, status_code, load_time_ms) ==
  (IF page_data.url.scheme = "http://"
   THEN <<Issue("technical_seo.non_https", "critical")>> ELSE <<>>)
  \o (IF "strict-transport-security" \notin page_data.response_headers
      THEN <<Issue("technical_seo.missing_hsts", "warning")>> ELSE <<>>)
  \o (IF "content-security-policy" \notin page_data.response_headers
      THEN <<Issue("technical_seo.missing_csp", "info")>> ELSE <<>>)

\* the number of rules of the default rule set
DefaultRuleCount == 12

\* self.rules[k - 1].evaluate(page_data, status_code, load_time_ms) for the
\* default rule set
RuleEvaluate(k, page_data, status_code, load_time_ms) ==
  CASE k = 1 -> StatusCodeRule(page_data, status_code, load_time_ms)
    [] k = 2 -> BasicSeoRule(page_data, status_code, load_time_ms)
    [] k = 3 -> CanonicalRule(page_data, status_code, load_time_ms)
    [] k = 4 -> HeadingHierarchyRule(page_data, status_code, load_time_ms)
    [] k = 5 -> InternalLinkValidityRule(page_data, status_code, load_time_ms)
    [] k = 6 -> RedirectChainRule(page_data, status_code, load_time_ms)
    [] k = 7 -> PageLoadSpeedRule(page_data, status_code, load_time_ms)
    [] k = 8 -> MobileFriendlyRule(page_data, status_code, load_time_ms)
    [] k = 9 -> CoreWebVitalsRule(page_data, status_code, load_time_ms)
    [] k = 10 -> StructuredDataRule(page_data, status_code, load_time_ms)
    [] k = 11 -> IndexabilityRule(page_data, status_code, load_time_ms)
    [] k = 12 -> SecurityRule(page_data, status_code, load_time_ms)

FatalTypes == {"technical_seo.http_404_not_found", "technical_seo.http_server_error"}

\* any(issue.type in {...} for issue in new_issues)
StopAfterNever(new_issues) == FALSE
StopAfter(new_issues) ==
  \E k \in 1..Len(new_issues) : new_issues[k].type \in FatalTypes

\* the loop of Analyzer.analyze from rule k on, issues being the findings so far
RECURSIVE AnalyzeLoop(_, _, _, _, _)
AnalyzeLoop(k, issues, page_data, status_code, load_time_ms) ==
  IF k > DefaultRuleCount THEN issues
  ELSE LET new_issues == RuleEvaluate(k, page_data, status_code, load_time_ms)
       IN IF StopAfter(new_issues) THEN issues \o new_issues
          ELSE AnalyzeLoop(k + 1, issues \o new_issues, page_data, status_code,
                           load_time_ms)

\* Analyzer.analyze with the default rule set
analyze(page_data, status_code, load_time_ms) ==
  AnalyzeLoop(1, <<>>, page_data, status_code, load_time_ms)

\* issues = analyzer.analyze(parse_result, status_code, load_time)
Analyze ==
  /\ pc = "analyze"
  /\ cur' = [cur EXCEPT !.analyzed = [called |-> TRUE, page_data |-> cur.parse_result],
                        !.issues = analyze(cur.parse_result, cur.status_code,
                                           cur.load_time)]
  /\ pc' = "issues"
  /\ UNCHANGED units
  /\ UNCHANGED <<project, crawl, db, session, start_url, base_domain,
                 crawl_max_pages, robots, queue, visited, pages_processed,
                 issues_found, error_count, internal_link_validation_cache,
                 critical_issue_alert_sent, events, webhooks, trace>>

\* issue_data['severity'] == 'critical' and not critical_issue_alert_sent
AlertNeededEveryTime(severity, sent) == severity = "critical"
AlertNeeded(severity, sent) == severity = "critical" /\ ~sent

\* one iteration of `for issue_data in issues`: add the Issue, count it, and
\* dispatch the critical-issue webhook event unless one was dispatched before
PersistIssue ==
  /\ pc = "issues"
  /\ cur.issues # <<>>
  /\ LET issue_data == Head(cur.issues)
         alert == AlertNeeded(issue_data.severity, critical_issue_alert_sent)
     IN /\ session' = [session EXCEPT !.issues = @ + 1]
        /\ issues_found' = issues_found + 1
        /\ webhooks' = IF alert
                       THEN Append(webhooks, [event |-> "critical_issue_found",
                                              page_url |-> cur.url,
                                              issue_type |-> issue_data.type])
                       ELSE webhooks
        /\ critical_issue_alert_sent' = (critical_issue_alert_sent \/ alert)
        /\ trace' = [trace EXCEPT
                       !.criticals = IF issue_data.severity = "critical" THEN @ + 1 ELSE @,
                       !.first_critical =
                          IF issue_data.severity = "critical" /\ trace.criticals = 0
                          THEN <<[page_url |-> cur.url, issue_type |-> issue_data.type]>>
                          ELSE @]
        /\ cur' = [cur EXCEPT !.issues = Tail(@)]
  /\ UNCHANGED units
  /\ UNCHANGED <<pc, project, crawl, db, start_url, base_domain, crawl_max_pages,
                 robots, queue, visited, pages_processed, error_count,
                 internal_link_validation_cache, events>>

\* end of the iteration: count the page, commit, publish crawl_progress
FinishPage ==
  /\ pc = "issues"
  /\ cur.issues = <<>>
  /\ pages_processed' = pages_processed + 1
  /\ db' = [db EXCEPT !.links = @ + session.links, !.issues = @ + session.issues]
  /\ session' = [links |-> 0, issues |-> 0]
  /\ events' = Append(events, [type |-> "crawl_progress", crawl_id |-> CrawlId, status |-> crawl.status,
                               current_url |-> cur.url,
                               pages_processed |-> pages_processed + 1,
                               max_pages |-> crawl_max_pages,
                               issues_found |-> issues_found,
                               error_count |-> error_count])
  /\ cur' = NoPage
  /\ pc' = "loop"
  /\ broker' = publish(broker, CrawlId, events'[Len(events')])
  /\ UNCHANGED bystanders
  /\ UNCHANGED <<project, crawl, start_url, base_domain, crawl_max_pages, robots,
                 queue, visited, issues_found, error_count,
                 internal_link_validation_cache, critical_issue_alert_sent,
                 webhooks, trace>>

(***************************************************************************)
(* Leaving the loop                                                        *)
(***************************************************************************)
\* the loop ended: mark completed, publish crawl_completed
Complete ==
  /\ pc = "loop" /\ ~LoopCond
  /\ crawl' = [crawl EXCEPT !.status = "completed"]
  /\ events' = Append(events, [type |-> "crawl_completed", crawl_id |-> CrawlId, status |-> "completed",
                               pages_processed |-> pages_processed,
                               max_pages |-> crawl_max_pages,
                               issues_found |-> issues_found,
                               error_count |-> error_count])
  /\ pc' = "finally"
  /\ broker' = publish(broker, CrawlId, events'[Len(events')])
  /\ UNCHANGED bystanders
  /\ UNCHANGED <<project, db, session, start_url, base_domain, crawl_max_pages,
                 robots, queue, visited, pages_processed, issues_found, error_count,
                 internal_link_validation_cache, critical_issue_alert_sent, cur,
                 webhooks, trace>>

\* where a statement of the loop body can raise: inside an iteration (the
\* fetch, the parser, a commit, the analyzer, dispatch_event)
InTryOrAfter ==
  \/ pc = "loop" /\ LoopCond
  \/ pc \in {"links", "analyze", "issues", "finally"}
InTry ==
  \/ pc = "loop" /\ LoopCond
  \/ pc \in {"links", "analyze", "issues"}

\* except Exception: mark failed, count the error, publish crawl_failed
Raise ==
  /\ InTry
  /\ crawl' = [crawl EXCEPT !.status = "failed"]
  /\ error_count' = error_count + 1
  /\ events' = Append(events, [type |-> "crawl_failed", crawl_id |-> CrawlId, status |-> "failed",
                               pages_processed |-> pages_processed,
                               max_pages |-> crawl_max_pages,
                               issues_found |-> issues_found,
                               error_count |-> error_count + 1])
  /\ pc' = "finally"
  /\ broker' = publish(broker, CrawlId, events'[Len(events')])
  /\ UNCHANGED bystanders
  /\ UNCHANGED <<project, db, session, start_url, base_domain, crawl_max_pages,
                 robots, queue, visited, pages_processed, issues_found,
                 internal_link_validation_cache, critical_issue_alert_sent, cur,
                 webhooks, trace>>

\* crawl.end_time, crawl.total_pages and crawl.issues_count of the finally block
FinalizedOnSuccess(c, pages, issues) ==
  IF c.status = "completed"
  THEN [c EXCEPT !.end_time = TRUE, !.total_pages = pages, !.issues_count = issues]
  ELSE c
Finalized(c, pages, issues) ==
  [c EXCEPT !.end_time = TRUE, !.total_pages = pages, !.issues_count = issues]

\* if crawl.status == CrawlStatus.COMPLETED
NotifyAlways(c) == TRUE
NotifyCompleted(c) == c.status = "completed"

\* finally: set the end time and the totals, commit, and dispatch the
\* crawl-completed webhook event for a completed job
Finally ==
  /\ pc = "finally"
  /\ crawl' = Finalized(crawl, pages_processed, issues_found)
  /\ db' = [db EXCEPT !.crawl = crawl', !.links = @ + session.links,
                      !.issues = @ + session.issues]
  /\ session' = [links |-> 0, issues |-> 0]
  /\ webhooks' = IF NotifyCompleted(crawl')
                 THEN Append(webhooks, [event |-> "crawl_completed",
                                        status |-> crawl'.status,
                                        total_pages |-> crawl'.total_pages,
                                        issues_count |-> crawl'.issues_count])
                 ELSE webhooks
  /\ pc' = "done"
  /\ UNCHANGED units
  /\ UNCHANGED <<project, start_url, base_domain, crawl_max_pages, robots, queue,
                 visited, pages_processed, issues_found, error_count,
                 internal_link_validation_cache, critical_issue_alert_sent, cur,
                 events, trace>>

Next ==
  \/ \E max_pages \in MaxPagesArgs, sitemap \in SitemapInputs, robots_loaded \in BOOLEAN :
       StartCrawl(max_pages, sitemap, robots_loaded)
  \/ \E step \in PreLoopSteps, max_pages \in MaxPagesArgs, sitemap \in SitemapInputs :
       StartCrawlRaises(step, max_pages, sitemap)
  \/ DequeueVisited
  \/ DequeueDisallowed
  \/ \E resp \in FetchOutcomes : FetchFailed(resp)
  \/ \E resp \in FetchOutcomes, links \in DistinctSeqs(PageLinkUrls, MaxLinks) :
       FetchPage(resp, links)
  \/ \E head \in HttpAnswers, get \in HttpAnswers : ProcessLink(head, get)
  \/ AttachLinkLists
  \/ Analyze
  \/ PersistIssue
  \/ FinishPage
  \/ Complete
  \/ Raise
  \/ Finally

Spec == Init /\ [][Next]_vars

\* the steps run_crawl takes when no statement raises
Proceed ==
  \/ \E max_pages \in MaxPagesArgs, sitemap \in SitemapInputs, robots_loaded \in BOOLEAN :
       StartCrawl(max_pages, sitemap, robots_loaded)
  \/ DequeueVisited
  \/ DequeueDisallowed
  \/ \E resp \in FetchOutcomes : FetchFailed(resp)
  \/ \E resp \in FetchOutcomes, links \in DistinctSeqs(PageLinkUrls, MaxLinks) :
       FetchPage(resp, links)
  \/ \E head \in HttpAnswers, get \in HttpAnswers : ProcessLink(head, get)
  \/ AttachLinkLists
  \/ Analyze
  \/ PersistIssue
  \/ FinishPage
  \/ Complete
  \/ Finally

\* the background task that runs run_crawl is not starved: as long as the
\* function has a next statement it executes it.  Whether a statement raises
\* is up to the environment.
LiveSpec == Init /\ [][Next]_vars /\ WF_vars(Proceed)

\* run_crawl on a site and a database that never make a statement raise
LoopSpec == Init /\ [][Proceed]_vars /\ WF_vars(Proceed)

(***************************************************************************)
(* Properties                                                              *)
(***************************************************************************)
NormalizedUrls == {normalize_url(u) : u \in AllUrls}

RECURSIVE SumOver(_, _)
SumOver(f, S) ==
  IF S = {} THEN 0
  ELSE LET u == CHOOSE x \in S : TRUE IN f[u] + SumOver(f, S \ {u})

\* how often the URLs whose normalized form is n were counted in f
CountOf(f, n) == SumOver(f, {u \in AllUrls : normalize_url(u) = n})

\* number of dispatch_event calls for one event
Dispatched(event) == Cardinality({i \in 1..Len(webhooks) : webhooks[i].event = event})

\* C1: within one run_crawl, for every normalized URL at most one page fetch
\* is issued and at most one Page record is created, however often the URL
\* was seeded or discovered.
C1_OneFetchPerNormalizedUrl ==
  \A n \in NormalizedUrls :
    CountOf(trace.fetches, n) <= 1 /\ CountOf(trace.pages, n) <= 1

\* a URL that entered the queue twice and was fetched and recorded once, the
\* queue having been drained
C1_Witness ==
  \E n \in NormalizedUrls :
    /\ CountOf(trace.enqueues, n) >= 2
    /\ CountOf(trace.fetches, n) = 1
    /\ CountOf(trace.pages, n) = 1
    /\ pc = "done"
    /\ crawl.status = "completed"
    /\ queue = <<>>

\* C2: within one job a given normalized URL is added to the crawl queue at
\* most once (start URL, sitemap seeds and discovered links counted).
C2_EnqueuedAtMostOnce ==
  \A n \in NormalizedUrls : CountOf(trace.enqueues, n) <= 1

TerminalStatus == {"completed", "failed"}
StatusSteps == {<<"pending", "running">>, <<"running", "completed">>,
                <<"running", "failed">>}

\* C3: the job's status (of the Crawl object and of the committed row) changes
\* only along pending -> running, running -> completed, running -> failed, so
\* a completed or failed job never changes status again.
C3_StatusTransitions ==
  [][/\ crawl'.status # crawl.status => <<crawl.status, crawl'.status>> \in StatusSteps
     /\ db'.crawl.status # db.crawl.status =>
          <<db.crawl.status, db'.crawl.status>> \in StatusSteps]_vars

\* a job that failed part-way and was committed as failed
C3_Witness == pc = "done" /\ db.crawl.status = "failed" /\ crawl.status = "failed"

\* C4: whenever the committed job is completed or failed, its end_time is set
\* and its total_pages and issues_count equal the loop's counters, on the
\* exception path as on the success path.
C4_TotalsFinalized ==
  db.crawl.status \in TerminalStatus =>
    /\ db.crawl.end_time
    /\ db.crawl.total_pages = pages_processed
    /\ db.crawl.issues_count = issues_found

\* a failed job with pages and issues counted before the exception
C4_Witness ==
  db.crawl.status = "failed" /\ pages_processed >= 1 /\ issues_found >= 2

\* C5: pages_processed never exceeds the effective budget, which is
\* max(1, max_pages or default); no URL is dequeued once pages_processed equals
\* the budget; the job is marked completed only with an empty queue or with
\* pages_processed equal to the budget.
C5_PageBudget ==
  [][/\ pc' \notin {"pending", "raised"} =>
          /\ pages_processed' <= crawl_max_pages'
          /\ \E m \in MaxPagesArgs :
               crawl_max_pages' =
                 IF m \in {None, 0}
                 THEN (IF DefaultCrawlMaxPages < 1 THEN 1 ELSE DefaultCrawlMaxPages)
                 ELSE (IF m < 1 THEN 1 ELSE m)
     /\ Len(queue') < Len(queue) => pages_processed < crawl_max_pages
     /\ crawl'.status = "completed" =>
          queue' = <<>> \/ pages_processed' = crawl_max_pages']_vars

\* the budget ends the crawl while URLs are still queued
C5_Witness ==
  /\ crawl.status = "completed"
  /\ queue # <<>>
  /\ pages_processed = crawl_max_pages
  /\ crawl_max_pages >= 2

\* C6: when the fetch of a dequeued URL returns no response, error_count grows
\* by exactly one, exactly one crawl_error event naming the URL is published,
\* no page, link or issue record is created, pages_processed and issues_found
\* stay, the job stays running and goes on with the rest of the queue.
C6_FetchFailureIsNotFatal ==
  [][(trace'.fetches # trace.fetches /\ trace'.last_fetch = "none") =>
       /\ error_count' = error_count + 1
       /\ Len(events') = Len(events) + 1
       /\ SubSeq(events', 1, Len(events)) = events
       /\ events'[Len(events')].type = "crawl_error"
       /\ events'[Len(events')].current_url = Head(queue)
       /\ events'[Len(events')].error_count = error_count + 1
       /\ db' = db /\ session' = session /\ trace'.pages = trace.pages
       /\ pages_processed' = pages_processed
       /\ issues_found' = issues_found
       /\ crawl'.status = "running"
       /\ pc' = "loop"
       /\ queue' = Tail(queue)]_vars

\* a fetch just failed, and the job is running with URLs left to crawl
C6_Witness ==
  /\ trace.last_fetch = "none"
  /\ error_count = 1
  /\ pc = "loop"
  /\ crawl.status = "running"
  /\ queue # <<>>
  /\ pages_processed >= 1

\* C7: within one job every distinct target URL is verified at most once; a
\* target linked from several pages, and a target whose verification gave
\* (None, 0), are served from the cache afterwards.
C7_VerifiedAtMostOnce ==
  \A u \in AllUrls :
    /\ trace.verifies[u] <= 1
    /\ (u \in DOMAIN internal_link_validation_cache <=> trace.verifies[u] = 1)
    /\ u \in trace.cache_hits => trace.verifies[u] = 1

\* a target whose verification failed was met again and served from the cache
C7_Witness ==
  \E u \in trace.cache_hits :
    /\ internal_link_validation_cache[u].status = None
    /\ trace.verifies[u] = 1

\* the entries of the validation cache for the links of a page that satisfy Keep
RECURSIVE LinksWhere(_, _, _)
LinksWhere(links, cache, keep) ==
  IF links = <<>> THEN <<>>
  ELSE (IF Head(links) \in DOMAIN cache /\ cache[Head(links)] \in keep
        THEN <<Head(links)>> ELSE <<>>)
       \o LinksWhere(Tail(links), cache, keep)

VerifyResults == {[status |-> st, hops |-> h] : st \in {None, 200, 404}, h \in {0, 2}}

\* C8: for every processed page the analyzer is called only after
\* invalid_internal_links and internal_links_with_redirect_chain were computed
\* over all internal links of the page and attached to the signals it is given.
C8_ListsAttachedBeforeAnalyze ==
  (cur.active /\ cur.analyzed.called) =>
    LET given == cur.analyzed.page_data
        cache == internal_link_validation_cache
    IN /\ cur.i = Len(cur.links) + 1
       /\ given.invalid_internal_links.set
       /\ given.internal_links_with_redirect_chain.set
       /\ [k \in 1..Len(given.invalid_internal_links.items) |->
             given.invalid_internal_links.items[k].url]
            = LinksWhere(cur.links, cache,
                         {r \in VerifyResults : r.status = None \/ r.status >= 400})
       /\ [k \in 1..Len(given.internal_links_with_redirect_chain.items) |->
             given.internal_links_with_redirect_chain.items[k].url]
            = LinksWhere(cur.links, cache, {r \in VerifyResults : r.hops >= 2})

\* the analyzer ran on a page with two internal links, one of them invalid
\* and one behind a redirect chain
C8_Witness ==
  /\ pc = "issues"
  /\ Len(cur.links) = 2
  /\ Len(cur.analyzed.page_data.invalid_internal_links.items) >= 1
  /\ Len(cur.analyzed.page_data.internal_links_with_redirect_chain.items) >= 1

\* C9: the critical-issue notification is dispatched exactly once if the job
\* produced a critical issue, for the first one, and never otherwise.
C9_CriticalAlertOnce ==
  /\ Dispatched("critical_issue_found") = (IF trace.criticals > 0 THEN 1 ELSE 0)
  /\ \A i \in 1..Len(webhooks) :
       webhooks[i].event = "critical_issue_found" =>
         /\ trace.first_critical # <<>>
         /\ webhooks[i].page_url = trace.first_critical[1].page_url
         /\ webhooks[i].issue_type = trace.first_critical[1].issue_type

\* a finished job with critical issues on two pages and one notification
C9_Witness ==
  /\ pc = "done"
  /\ trace.criticals >= 3
  /\ pages_processed >= 2
  /\ Dispatched("critical_issue_found") = 1

\* C10: the crawl-completed notification is dispatched exactly once for a job
\* that ends completed and never for a job that ends failed.
C10_CompletedNotification ==
  /\ Dispatched("crawl_completed") <= 1
  /\ (pc = "done" /\ db.crawl.status = "completed") => Dispatched("crawl_completed") = 1
  /\ (crawl.status = "failed" \/ db.crawl.status = "failed")
       => Dispatched("crawl_completed") = 0

\* a job that ended completed with its single notification
C10_Witness ==
  /\ pc = "done"
  /\ db.crawl.status = "completed"
  /\ pages_processed >= 1
  /\ Dispatched("crawl_completed") = 1

TerminalEventTypes == {"crawl_completed", "crawl_failed"}
TerminalEvents == {i \in 1..Len(events) : events[i].type \in TerminalEventTypes}

\* C11: a job that reaches a terminal state has published exactly one terminal
\* event, crawl_completed exactly when its status is completed and
\* crawl_failed exactly when it is failed, and that event is the last one
\* published; a job that is not terminal has published none, and after a
\* crawl_error event the job is still running.
C11_OneTerminalEventLast ==
  /\ \A st \in {crawl.status, db.crawl.status} :
       st \in TerminalStatus =>
         /\ Cardinality(TerminalEvents) = 1
         /\ events[Len(events)].type =
              (IF st = "completed" THEN "crawl_completed" ELSE "crawl_failed")
  /\ crawl.status \notin TerminalStatus => TerminalEvents = {}
  /\ (events # <<>> /\ events[Len(events)].type = "crawl_error") =>
       crawl.status = "running" /\ pc \notin {"finally", "done"}

\* a job that published a crawl_error, went on to process a page, and then
\* failed
C11_Witness ==
  /\ pc = "done"
  /\ crawl.status = "failed"
  /\ \E i, j \in 1..Len(events) :
       /\ i < j
       /\ events[i].type = "crawl_error"
       /\ events[j].type = "crawl_progress"

\* C12: a dequeued URL that robots.txt disallows is never fetched and gets no
\* page record, its normalized form is in the visited set, and the step that
\* skips it changes neither pages_processed nor error_count.
C12_DisallowedNeverFetched ==
  [][/\ \A u \in trace'.disallowed :
          /\ trace'.fetches[u] = 0
          /\ trace'.pages[u] = 0
          /\ normalize_url(u) \in visited'
     /\ trace'.disallowed # trace.disallowed =>
          /\ Head(queue) \in trace'.disallowed
          /\ queue' = Tail(queue)
          /\ trace'.fetches = trace.fetches
          /\ pages_processed' = pages_processed
          /\ error_count' = error_count]_vars

\* a disallowed URL that was queued again and met again, in a job that
\* crawled other pages and ended without an error
C12_Witness ==
  /\ pc = "done"
  /\ crawl.status = "completed"
  /\ pages_processed >= 1
  /\ error_count = 0
  /\ \E u \in trace.disallowed : trace.enqueues[u] >= 2

\* the registrable domain of a netloc: its last label (a leading www. dropped)
Registrable(netloc) == netloc[Len(netloc)]

\* C13: every URL in the crawl queue, and every URL ever placed in it (start
\* URL, sitemap seeds, discovered links), has the registrable domain of the
\* project's domain, www. or not; a URL of another domain is never enqueued.
C13_QueueStaysOnDomain ==
  /\ \A i \in 1..Len(queue) :
       Registrable(queue[i].netloc) = Registrable(project.netloc)
  /\ \A u \in AllUrls :
       trace.enqueues[u] > 0 => Registrable(u.netloc) = Registrable(project.netloc)

\* a project stored as the bare domain whose queue got a www. URL from a page
\* next to the start URL and a sitemap seed
C13_Witness ==
  /\ project.netloc = Bare
  /\ Len(queue) >= 2
  /\ \E u \in AllUrls : u.netloc = Www /\ trace.enqueues[u] >= 1
  /\ \E u, v \in AllUrls :
       /\ u # v /\ u.netloc = Bare /\ v.netloc = Bare
       /\ trace.enqueues[u] >= 1 /\ trace.enqueues[v] >= 1

\* C25: when the last published event is crawl_completed or crawl_failed,
\* the committed Crawl row already has the terminal status, the end time and
\* the final total_pages and issues_count.
C25_TerminalEventAfterPersist ==
  (events # <<>> /\ events[Len(events)].type \in TerminalEventTypes) =>
    /\ db.crawl.status \in TerminalStatus
    /\ db.crawl.end_time
    /\ db.crawl.total_pages = pages_processed
    /\ db.crawl.issues_count = issues_found

\* C28: a job whose committed status is running eventually is committed as
\* completed or failed with its end time and totals set.
C28_RunningJobTerminates ==
  (db.crawl.status = "running") ~>
    (/\ db.crawl.status \in TerminalStatus
     /\ db.crawl.end_time
     /\ db.crawl.total_pages = pages_processed
     /\ db.crawl.issues_count = issues_found)

\* C29: the loop is left in the end.  An iteration takes the head off the
\* queue; the queue grows only by one link at a time while a fetched page is
\* being processed, and finishing that page adds one to pages_processed,
\* which never exceeds the budget.
C29_LoopTerminates ==
  /\ [][/\ (pc = "loop" /\ pc' \in {"loop", "links"}) => queue' = Tail(queue)
        /\ (pc # "pending" /\ Len(queue') > Len(queue)) =>
             (pc = "links" /\ cur.active /\ Len(queue') = Len(queue) + 1)
        /\ (pc = "issues" /\ pc' = "loop") =>
             (pages_processed' = pages_processed + 1
              /\ pages_processed' <= crawl_max_pages)]_vars
  /\ (pc = "loop") ~> (pc = "finally")

\* a job that completed with the queue drained after a failed fetch, a page
\* that linked to itself and a URL that was queued twice
C29_Witness ==
  /\ pc = "done" /\ crawl.status = "completed" /\ queue = <<>>
  /\ error_count >= 1
  /\ pages_processed >= 1
  /\ \E u \in AllUrls : trace.pages[u] = 1 /\ trace.verifies[u] >= 1
  /\ \E n \in NormalizedUrls : CountOf(trace.enqueues, n) >= 2

\* C30: whenever the committed job is completed or failed, its total_pages
\* is the number of committed Page rows and its issues_count the number of
\* committed Issue rows.
C30_TotalsMatchRecords ==
  db.crawl.status \in TerminalStatus =>
    /\ db.crawl.total_pages = db.pages
    /\ db.crawl.issues_count = db.issues

(***************************************************************************)
(* The Analyzer and its rules on their own (backend/app/crawler/           *)
(* analyzer.py): the arguments of one call are drawn, then analyze or one  *)
(* rule's evaluate is applied to them.                                     *)
(***************************************************************************)
\* h1 .. h6
MaxHeadingLevel == 6
HeadingLevels == 1..MaxHeadingLevel
Outlines == SeqsUpTo(HeadingLevels, MaxHeadings)

\* a page for which every rule after the status-code rule has a finding
PoorPage ==
  [title |-> 0, description |-> FALSE, h1 |-> FALSE, images_without_alt |-> 2,
   canonical |-> NoUrl, url |-> Url("http://", Bare, <<"/">>),
   heading_outline |-> <<1, 3>>,
   invalid_internal_links |->
     Assigned(<<[url |-> Url("https://", Bare, <<"/">>), status_code |-> 404]>>),
   redirect_hops |-> 2,
   internal_links_with_redirect_chain |->
     Assigned(<<[url |-> Url("https://", Bare, <<"/">>), redirect_hops |-> 2]>>),
   viewport |-> FALSE, lcp_ms |-> 5000, fcp_ms |-> 3500, cls |-> 300,
   structured_data_errors |-> 1, schema_org_json_ld |-> FALSE,
   noindex |-> TRUE, nofollow |-> TRUE, response_headers |-> {}]

\* a page with the milder findings
FairPage ==
  [PageOf(Url("https://", Www, <<"/", "x">>)) EXCEPT
     !.title = 5, !.canonical = Url("https://", Bare, <<"/", "x">>),
     !.lcp_ms = 3000, !.cls = 150,
     !.response_headers = {"content-security-policy"}]

PageProfiles == {PageOf(Url("https://", Bare, <<"/">>)), FairPage, PoorPage}
StatusCodes == {200, 301, 404, 500, 503}
LoadTimes ==
  {0} \cup ((warning_threshold_ms - LoadTimeMargin)..(warning_threshold_ms + LoadTimeMargin))
      \cup ((critical_threshold_ms - LoadTimeMargin)..(critical_threshold_ms + LoadTimeMargin))

\* arguments of a call: every profile with every status and load time, and
\* every heading outline with a reachable and an unreachable status
AnalyzerArgs ==
  {[page_data |-> p, status_code |-> st, load_time_ms |-> l] :
     p \in PageProfiles, st \in StatusCodes, l \in LoadTimes}
  \cup {[page_data |-> [p EXCEPT !.heading_outline = o], status_code |-> st,
         load_time_ms |-> 0] :
          p \in PageProfiles \ {FairPage}, o \in Outlines, st \in {200, 404}}

AnalyzerInit ==
  /\ JobIdle
  /\ broker = NewBroker
  /\ stream = NotInUse
  /\ analyzer \in {[in_use |-> TRUE, args |-> a, called |-> "none", issues |-> <<>>] :
                     a \in AnalyzerArgs}
  /\ proxy_pool = NotInUse
  /\ fetcher = NotInUse

\* Analyzer().analyze(page_data, status_code, load_time_ms)
CallAnalyze ==
  /\ analyzer.called = "none"
  /\ analyzer' = [analyzer EXCEPT
                    !.called = "Analyzer.analyze",
                    !.issues = analyze(analyzer.args.page_data,
                                       analyzer.args.status_code,
                                       analyzer.args.load_time_ms)]
  /\ UNCHANGED <<job, broker, stream, proxy_pool, fetcher>>

\* PageLoadSpeedRule().evaluate(page_data, status_code, load_time_ms)
EvaluatePageLoadSpeed ==
  /\ analyzer.called = "none"
  /\ analyzer' = [analyzer EXCEPT
                    !.called = "PageLoadSpeedRule.evaluate",
                    !.issues = PageLoadSpeedRule(analyzer.args.page_data,
                                                 analyzer.args.status_code,
                                                 analyzer.args.load_time_ms)]
  /\ UNCHANGED <<job, broker, stream, proxy_pool, fetcher>>

\* HeadingHierarchyRule().evaluate(page_data, status_code, load_time_ms)
EvaluateHeadingHierarchy ==
  /\ analyzer.called = "none"
  /\ analyzer' = [analyzer EXCEPT
                    !.called = "HeadingHierarchyRule.evaluate",
                    !.issues = HeadingHierarchyRule(analyzer.args.page_data,
                                                    analyzer.args.status_code,
                                                    analyzer.args.load_time_ms)]
  /\ UNCHANGED <<job, broker, stream, proxy_pool, fetcher>>

AnalyzerNext ==
  \/ CallAnalyze
  \/ EvaluatePageLoadSpeed
  \/ EvaluateHeadingHierarchy

AnalyzerSpec == AnalyzerInit /\ [][AnalyzerNext]_vars

\* the types of a list of issues
TypesOf(issues) == [k \in 1..Len(issues) |-> issues[k].type]

\* C14: with the default rule set, analyze with status 404 returns exactly the
\* one issue technical_seo.http_404_not_found and with a status >= 500 exactly
\* the one issue technical_seo.http_server_error, whatever the signals and the
\* load time: no later rule adds a finding.
C14_FatalStatusShortCircuits ==
  analyzer.called = "Analyzer.analyze" =>
    /\ analyzer.args.status_code = 404 =>
         TypesOf(analyzer.issues) = <<"technical_seo.http_404_not_found">>
    /\ analyzer.args.status_code >= 500 =>
         TypesOf(analyzer.issues) = <<"technical_seo.http_server_error">>

\* analyze was called with a 5xx status for a slow page on which every later
\* rule has a finding
C14_Witness ==
  /\ analyzer.called = "Analyzer.analyze"
  /\ analyzer.args.status_code = 503
  /\ analyzer.args.page_data = PoorPage
  /\ analyzer.args.load_time_ms >= 4000
  /\ Len(analyzer.issues) = 1

\* C15: the page-load rule yields no issue for a load time below 2000 ms,
\* exactly one technical_seo.slow_page_load warning from 2000 ms to below
\* 4000 ms, and exactly one of severity critical from 4000 ms on.
C15_LoadTimeThresholds ==
  analyzer.called = "PageLoadSpeedRule.evaluate" =>
    LET ms == analyzer.args.load_time_ms
    IN analyzer.issues =
         (IF ms < 2000 THEN <<>>
          ELSE IF ms < 4000
               THEN <<[type |-> "technical_seo.slow_page_load", severity |-> "warning"]>>
               ELSE <<[type |-> "technical_seo.slow_page_load", severity |-> "critical"]>>)

\* the rule was evaluated at exactly 2000 ms and gave the warning
C15_Witness ==
  /\ analyzer.called = "PageLoadSpeedRule.evaluate"
  /\ analyzer.args.load_time_ms = 2000
  /\ Len(analyzer.issues) = 1
  /\ analyzer.issues[1].severity = "warning"

\* some heading's level is more than one above the level of the heading
\* before it
SkipsALevel(outline) ==
  \E k \in 2..Len(outline) : outline[k] - outline[k - 1] > 1

\* C16: the heading-hierarchy rule reports accessibility.heading_hierarchy_invalid
\* exactly when some heading's level exceeds the level of the heading before it
\* by more than 1, and then once; a decrease in level and the first heading
\* never make it report.
C16_HeadingJumpOnly ==
  analyzer.called = "HeadingHierarchyRule.evaluate" =>
    analyzer.issues =
      (IF SkipsALevel(analyzer.args.page_data.heading_outline)
       THEN <<[type |-> "accessibility.heading_hierarchy_invalid",
               severity |-> "warning"]>>
       ELSE <<>>)

\* an outline that starts at h4 and drops to h1 was evaluated without a finding
C16_Witness ==
  /\ analyzer.called = "HeadingHierarchyRule.evaluate"
  /\ analyzer.args.page_data.heading_outline = <<4, 1, 2>>
  /\ analyzer.issues = <<>>

(***************************************************************************)
(* The ProxyPool on its own (backend/app/crawler/fetcher.py): a pool is    *)
(* constructed from ProxyConfig entries, then next, report_success,        *)
(* report_failure and reset_all are called in any order.                   *)
(***************************************************************************)
ProxyUrls == {"http://proxy1:8080", "http://proxy2:8080"}

\* ProxyConfig(url, max_failures=max_failures): failures starts at 0 (the
\* weight only biases the random choice of next and is left out)
ProxyConfig(url, max_failures) ==
  [url |-> url, failures |-> 0, max_failures |-> max_failures]

\* the lists a pool is built from; add() appends without looking for the URL,
\* so a URL can be listed twice
ProxyLists ==
  SeqsUpTo({ProxyConfig(u, m) : u \in ProxyUrls, m \in 1..MaxFailuresCeiling}, MaxProxies)

\* p.failures < p.max_failures
AvailableInclusive(p) == p.failures <= p.max_failures
Available(p) == p.failures < p.max_failures

\* what ProxyPool.next can return: the URL of any available entry, or None
\* (the string "None") when there is none
NextResults(proxies) ==
  LET available == {k \in 1..Len(proxies) : Available(proxies[k])}
  IN IF available = {} THEN {"None"} ELSE {proxies[k].url : k \in available}

\* index of the first entry with the URL, 0 when there is none: the entry
\* the loops of report_success and report_failure stop at
FirstEntry(proxies, url) ==
  IF \E k \in 1..Len(proxies) : proxies[k].url = url
  THEN CHOOSE k \in 1..Len(proxies) :
         /\ proxies[k].url = url
         /\ \A j \in 1..(k - 1) : proxies[j].url # url
  ELSE 0

\* ProxyPool.report_success
report_success(proxies, url) ==
  LET k == FirstEntry(proxies, url)
  IN IF k = 0 THEN proxies ELSE [proxies EXCEPT ![k].failures = 0]

\* ProxyPool.report_failure
report_failure(proxies, url) ==
  LET k == FirstEntry(proxies, url)
  IN IF k = 0 THEN proxies ELSE [proxies EXCEPT ![k].failures = @ + 1]

\* ProxyPool.reset_all
reset_all(proxies) == [k \in 1..Len(proxies) |-> [proxies[k] EXCEPT !.failures = 0]]

NoReports == [u \in ProxyUrls |-> 0]

\* the URLs in seen and, if the failure count of the URL's entry is at its
\* max_failures, the URL
WithReached(seen, proxies, url) ==
  LET k == FirstEntry(proxies, url)
  IN IF k # 0 /\ ~Available(proxies[k]) THEN seen \cup {url} ELSE seen

\* a pool right after construction; since_success and since_clear count, per
\* URL, the report_failure calls since the last report_success for it, and
\* since the last report_success for it or reset_all; reached holds the URLs
\* whose failure count was at max_failures at some time since the last
\* reset_all
NewPool(proxies) ==
  [in_use |-> TRUE, proxies |-> proxies, call |-> "none", arg |-> "None",
   returned |-> "None", since_success |-> NoReports, since_clear |-> NoReports,
   reached |-> {}]

ProxyPoolInit ==
  /\ JobIdle
  /\ broker = NewBroker
  /\ stream = NotInUse
  /\ analyzer = NotInUse
  /\ proxy_pool \in {NewPool(l) : l \in ProxyLists}
  /\ fetcher = NotInUse

\* pool.next()
PoolNext ==
  /\ \E r \in NextResults(proxy_pool.proxies) :
       proxy_pool' = [proxy_pool EXCEPT !.call = "next", !.arg = "None",
                                        !.returned = r]
  /\ UNCHANGED <<job, broker, stream, analyzer, fetcher>>

\* pool.report_success(url)
PoolReportSuccess(url) ==
  /\ proxy_pool' = [proxy_pool EXCEPT
                      !.proxies = report_success(@, url),
                      !.call = "report_success", !.arg = url, !.returned = "None",
                      !.since_success[url] = 0, !.since_clear[url] = 0]
  /\ UNCHANGED <<job, broker, stream, analyzer, fetcher>>

\* pool.report_failure(url)
PoolReportFailure(url) ==
  /\ proxy_pool.since_success[url] < MaxFailureReports
  /\ proxy_pool' = [proxy_pool EXCEPT
                      !.proxies = report_failure(@, url),
                      !.call = "report_failure", !.arg = url, !.returned = "None",
                      !.since_success[url] = @ + 1, !.since_clear[url] = @ + 1,
                      !.reached = WithReached(@, report_failure(proxy_pool.proxies, url),
                                              url)]
  /\ UNCHANGED <<job, broker, stream, analyzer, fetcher>>

\* pool.reset_all()
PoolResetAll ==
  /\ proxy_pool' = [proxy_pool EXCEPT
                      !.proxies = reset_all(@),
                      !.call = "reset_all", !.arg = "None", !.returned = "None",
                      !.since_clear = NoReports, !.reached = {}]
  /\ UNCHANGED <<job, broker, stream, analyzer, fetcher>>

ProxyPoolNext ==
  \/ PoolNext
  \/ \E url \in ProxyUrls : PoolReportSuccess(url)
  \/ \E url \in ProxyUrls : PoolReportFailure(url)
  \/ PoolResetAll

ProxyPoolSpec == ProxyPoolInit /\ [][ProxyPoolNext]_vars

\* the entries of the pool that have the URL
EntriesOf(url) ==
  {k \in 1..Len(proxy_pool.proxies) : proxy_pool.proxies[k].url = url}

\* next() returns None exactly when no entry is below its ceiling, and after
\* report_success(url) the failure count of the URL is 0
NoneAndSuccess ==
  /\ proxy_pool.call = "next" =>
       (proxy_pool.returned = "None" <=>
          \A k \in 1..Len(proxy_pool.proxies) :
            proxy_pool.proxies[k].failures >= proxy_pool.proxies[k].max_failures)
  /\ proxy_pool.call = "report_success" =>
       \A k \in EntriesOf(proxy_pool.arg) : proxy_pool.proxies[k].failures = 0

\* C17 as stated: next() never returns a proxy for which report_failure was
\* called max_failures times since the last report_success for it; next()
\* returns None when no proxy is below its ceiling; report_success sets the
\* failure count to 0.
C17_AsStated ==
  /\ NoneAndSuccess
  /\ (proxy_pool.call = "next" /\ proxy_pool.returned # "None") =>
       \E k \in EntriesOf(proxy_pool.returned) :
         proxy_pool.since_success[proxy_pool.returned]
           < proxy_pool.proxies[k].max_failures

\* C17, amended: in a pool that lists the URL once, next() never returns a
\* proxy for which report_failure was called max_failures times since the last
\* report_success for it and the last reset_all; next() returns None exactly
\* when no proxy is below its ceiling; report_success sets the failure count
\* to 0.
C17_DisabledUntilCleared ==
  /\ NoneAndSuccess
  /\ (proxy_pool.call = "next" /\ proxy_pool.returned # "None") =>
       \A k \in EntriesOf(proxy_pool.returned) :
         Cardinality(EntriesOf(proxy_pool.returned)) = 1 =>
           proxy_pool.since_clear[proxy_pool.returned]
             < proxy_pool.proxies[k].max_failures

\* C26: in a pool that lists each URL once, a proxy whose failure count has
\* been at its max_failures since the pool was created or reset_all was last
\* called is not returned by next(), whatever report_failure and
\* report_success calls came after.
C26_ExcludedUntilReset ==
  (/\ proxy_pool.call = "next"
   /\ proxy_pool.returned # "None"
   /\ Cardinality(EntriesOf(proxy_pool.returned)) = 1) =>
    proxy_pool.returned \notin proxy_pool.reached

\* next() returned the other proxy of a pool of two while one is at its
\* ceiling of two failures reported in a row
C17_Witness ==
  /\ proxy_pool.call = "next"
  /\ Len(proxy_pool.proxies) = 2
  /\ proxy_pool.proxies[1].url # proxy_pool.proxies[2].url
  /\ proxy_pool.proxies[1].max_failures = 2
  /\ proxy_pool.since_clear[proxy_pool.proxies[1].url] = 2
  /\ proxy_pool.proxies[1].failures = 2
  /\ proxy_pool.returned = proxy_pool.proxies[2].url

(***************************************************************************)
(* The Fetcher on its own (backend/app/crawler/fetcher.py), with the link  *)
(* verification the crawler sends through its session (crawler.py,         *)
(* _verify_internal_link).  Times are in half seconds.  Instead of the     *)
(* clock the state keeps what the code compares: elapsed, the time since   *)
(* last_request_time, and since_end, the time since the last outbound      *)
(* request ended, both cut off at the delay.                               *)
(***************************************************************************)
\* ProxyPool.add(proxy_url): max_failures defaults to 5
DefaultMaxFailures == 5

\* FetcherConfig: the defaults are delay 1.0 s, backoff_factor 1.0 s and
\* backoff_max 30 s
FetcherConfigs ==
  {[delay |-> d, max_retries |-> r, backoff_factor |-> 2, backoff_max |-> 60,
    rendering_mode |-> m, proxy_urls |-> l] :
     d \in 0..MaxDelay, r \in 0..MaxRetries, m \in {"html", "js"},
     l \in {<<>>, <<"http://proxy1:8080">>}}

\* no fetch was called yet
NoCall == [mode |-> "none", attempts |-> 0, raised |-> 0, unavailable |-> FALSE]
NoResult == [value |-> "none", via |-> "none"]
NoRequest == [kind |-> "none", gap |-> 0, first |-> TRUE]

\* Fetcher.__init__: last_request_time = 0, so that the first _throttle finds
\* the delay elapsed; the pool gets one entry per configured proxy URL
NewFetcher(config) ==
  [in_use |-> TRUE, config |-> config, headless_fetcher |-> "None",
   elapsed |-> config.delay, pc |-> "idle", attempt |-> 0,
   call |-> NoCall, result |-> NoResult,
   since_end |-> config.delay, last_request |-> NoRequest, downgraded |-> FALSE]

FetcherInit ==
  /\ JobIdle
  /\ broker = NewBroker
  /\ stream = NotInUse
  /\ analyzer = NotInUse
  /\ \E config \in FetcherConfigs :
       /\ fetcher = NewFetcher(config)
       /\ proxy_pool =
            NewPool([k \in 1..Len(config.proxy_urls) |->
                       ProxyConfig(config.proxy_urls[k], DefaultMaxFailures)])

\* the time t, cut off at the delay, after d more half seconds
Later(t, d) ==
  IF t + d > fetcher.config.delay THEN fetcher.config.delay ELSE t + d

\* an outbound request of the kind is sent now
Request(kind) ==
  [kind |-> kind, gap |-> fetcher.since_end,
   first |-> fetcher.last_request.kind = "none"]

\* fetch(url) up to the choice of the path: _throttle sleeps for what is
\* missing of the delay since last_request_time
FetchCall ==
  /\ fetcher.pc = "idle"
  /\ LET slept == IF fetcher.elapsed < fetcher.config.delay
                  THEN fetcher.config.delay - fetcher.elapsed ELSE 0
     IN fetcher' = [fetcher EXCEPT
                      !.elapsed = Later(@, slept),
                      !.since_end = Later(@, slept),
                      !.pc = IF fetcher.config.rendering_mode = "js"
                             THEN "headless" ELSE "get",
                      !.attempt = 0,
                      !.call = [NoCall EXCEPT !.mode = fetcher.config.rendering_mode],
                      !.result = NoResult]
  /\ UNCHANGED <<job, broker, stream, analyzer, proxy_pool>>

\* the FetcherConfig _fetch_headless puts in place of self._config when the
\* HeadlessFetcher cannot be constructed
KeepsHeadless(config) == config
WithoutHeadless(config) == [config EXCEPT !.rendering_mode = "html"]

\* _fetch_headless: HeadlessFetcher(...) raises HeadlessBrowserUnavailable
\* (playwright not importable, or Chromium not launching); fetch goes on
\* with the plain HTTP path
HeadlessUnavailable ==
  /\ fetcher.pc = "headless"
  /\ fetcher.headless_fetcher = "None"
  /\ fetcher' = [fetcher EXCEPT
                   !.config = WithoutHeadless(@),
                   !.downgraded = TRUE,
                   !.call.unavailable = TRUE,
                   !.pc = "get"]
  /\ UNCHANGED <<job, broker, stream, analyzer, proxy_pool>>

\* _fetch_headless: the HeadlessFetcher exists or is constructed, and
\* page.goto gives a response, or gives None or raises, after which fetch
\* goes on with the plain HTTP path.  last_request_time is left as it is.
HeadlessFetch(outcome) ==
  /\ fetcher.pc = "headless"
  /\ fetcher' = [fetcher EXCEPT
                   !.headless_fetcher = "started",
                   !.last_request = Request("headless"),
                   !.since_end = 0,
                   !.result = IF outcome = "response"
                              THEN [value |-> "response", via |-> "headless"]
                              ELSE @,
                   !.pc = IF outcome = "response" THEN "idle" ELSE "get"]
  /\ UNCHANGED <<job, broker, stream, analyzer, proxy_pool>>

\* max_attempts = self._config.max_retries + 1
max_attempts_one_more(config) == config.max_retries + 2
max_attempts(config) == config.max_retries + 1

RECURSIVE Pow2(_)
Pow2(n) == IF n = 0 THEN 1 ELSE 2 * Pow2(n - 1)

\* the sleep before the next attempt: min(backoff * 2 ** attempt, backoff_max)
\* times a random factor between 0.5 and 1
BackoffWaits(config, attempt) ==
  LET wait == IF config.backoff_factor * Pow2(attempt) < config.backoff_max
              THEN config.backoff_factor * Pow2(attempt) ELSE config.backoff_max
  IN {t \in 0..wait : 2 * t >= wait}

\* every sleep a Fetcher can draw, and no sleep
AllWaits ==
  {0} \cup UNION {BackoffWaits(config, attempt) :
                   config \in FetcherConfigs, attempt \in 0..MaxRetries}

\* the pool after report_success or report_failure for the proxy the attempt
\* went through (no call for a direct connection)
AfterReport(pool, ok, proxy_url) ==
  IF proxy_url = "None"
  THEN [pool EXCEPT !.call = "next", !.arg = "None", !.returned = proxy_url]
  ELSE IF ok
       THEN [pool EXCEPT !.proxies = report_success(@, proxy_url),
                         !.call = "report_success", !.arg = proxy_url,
                         !.returned = proxy_url,
                         !.since_success[proxy_url] = 0,
                         !.since_clear[proxy_url] = 0]
       ELSE [pool EXCEPT !.proxies = report_failure(@, proxy_url),
                         !.call = "report_failure", !.arg = proxy_url,
                         !.returned = proxy_url,
                         !.since_success[proxy_url] = @ + 1,
                         !.since_clear[proxy_url] = @ + 1,
                         !.reached = WithReached(@, report_failure(pool.proxies, proxy_url),
                                                 proxy_url)]

\* one iteration of the loop of _fetch_with_backoff: choose the proxy, send
\* the GET; a response is returned at once, a RequestException is followed by
\* the backoff sleep and the next iteration, or by (None, 0) after the last one
GetAttempt(raises, proxy_url, wait) ==
  /\ fetcher.pc = "get"
  /\ proxy_url \in NextResults(proxy_pool.proxies)
  /\ wait \in IF raises /\ fetcher.attempt < max_attempts(fetcher.config) - 1
              THEN BackoffWaits(fetcher.config, fetcher.attempt) ELSE {0}
  /\ LET request == Request(IF fetcher.attempt = 0 THEN "get" ELSE "retry")
         attempts == max_attempts(fetcher.config)
     IN IF ~raises
        THEN fetcher' = [fetcher EXCEPT
                           !.last_request = request,
                           !.elapsed = 0, !.since_end = 0,
                           !.call.attempts = @ + 1,
                           !.result = [value |-> "response", via |-> "http"],
                           !.pc = "idle"]
        ELSE IF fetcher.attempt < attempts - 1
             THEN fetcher' = [fetcher EXCEPT
                                !.last_request = request,
                                !.elapsed = Later(@, wait),
                                !.since_end = Later(0, wait),
                                !.call.attempts = @ + 1, !.call.raised = @ + 1,
                                !.attempt = @ + 1]
             ELSE fetcher' = [fetcher EXCEPT
                                !.last_request = request,
                                !.since_end = 0,
                                !.call.attempts = @ + 1, !.call.raised = @ + 1,
                                !.result = [value |-> "None", via |-> "http"],
                                !.pc = "idle"]
  /\ proxy_pool' = AfterReport(proxy_pool, ~raises, proxy_url)
  /\ UNCHANGED <<job, broker, stream, analyzer>>

\* CrawlerService._verify_internal_link for a link of the fetched page: a HEAD
\* through fetcher.session and, on a status >= 400, a GET right after it
VerifyLink(head, get) ==
  /\ fetcher.pc = "idle"
  /\ fetcher.result.value = "response"
  /\ LET second == ~head.exc /\ (head.status_code >= 400 \/ head.status_code = 405)
     IN fetcher' = [fetcher EXCEPT
                      !.last_request =
                         IF second THEN [kind |-> "verify", gap |-> 0, first |-> FALSE]
                         ELSE Request("verify"),
                      !.since_end = 0]
  /\ UNCHANGED <<job, broker, stream, analyzer, proxy_pool>>

\* half a second passes between two calls
Tick ==
  /\ fetcher.pc = "idle"
  /\ fetcher.elapsed < fetcher.config.delay \/ fetcher.since_end < fetcher.config.delay
  /\ fetcher' = [fetcher EXCEPT !.elapsed = Later(@, 1), !.since_end = Later(@, 1)]
  /\ UNCHANGED <<job, broker, stream, analyzer, proxy_pool>>

FetcherNext ==
  \/ FetchCall
  \/ HeadlessUnavailable
  \/ \E outcome \in {"response", "None"} : HeadlessFetch(outcome)
  \/ \E raises \in BOOLEAN, proxy_url \in ProxyUrls \cup {"None"}, wait \in AllWaits :
       GetAttempt(raises, proxy_url, wait)
  \/ \E head \in HttpAnswers, get \in HttpAnswers : VerifyLink(head, get)
  \/ Tick

FetcherSpec == FetcherInit /\ [][FetcherNext]_vars

\* C18: a fetch called in html mode sends at most max_retries + 1 GETs; it
\* returns a response exactly when the last GET it sent is the first that did
\* not raise, and (None, 0) exactly when all max_retries + 1 GETs raised; it
\* never ends any other way.
C18_RetriesThenNone ==
  fetcher.call.mode = "html" =>
    /\ fetcher.call.attempts <= fetcher.config.max_retries + 1
    /\ fetcher.pc = "get" => fetcher.call.raised = fetcher.call.attempts
    /\ fetcher.pc = "idle" =>
         /\ fetcher.result.value \in {"response", "None"}
         /\ fetcher.result.via = "http"
         /\ fetcher.result.value = "response" <=>
              fetcher.call.raised = fetcher.call.attempts - 1
         /\ fetcher.result.value = "None" <=>
              /\ fetcher.call.raised = fetcher.call.attempts
              /\ fetcher.call.attempts = fetcher.config.max_retries + 1

\* a fetch whose first two GETs raised returned the response of the third
C18_Witness ==
  /\ fetcher.call.mode = "html"
  /\ fetcher.pc = "idle"
  /\ fetcher.config.max_retries = 2
  /\ fetcher.call.attempts = 3
  /\ fetcher.call.raised = 2
  /\ fetcher.result.value = "response"

\* C19: once a fetch in js mode found that the headless renderer cannot be
\* constructed, that fetch ends with the result of the plain HTTP path, the
\* rendering mode is html, and no fetch goes to the headless path again.
C19_DowngradeIsPermanent ==
  /\ (fetcher.call.unavailable /\ fetcher.pc = "idle") =>
       /\ fetcher.result.via = "http"
       /\ fetcher.call.attempts >= 1
  /\ fetcher.downgraded =>
       /\ fetcher.config.rendering_mode = "html"
       /\ fetcher.headless_fetcher = "None"
       /\ fetcher.call.unavailable \/ fetcher.call.mode = "html"
       /\ fetcher.pc = "headless" => FALSE

\* after the downgrade a later fetch ran in html mode and returned a response
C19_Witness ==
  /\ fetcher.downgraded
  /\ ~fetcher.call.unavailable
  /\ fetcher.call.mode = "html"
  /\ fetcher.pc = "idle"
  /\ fetcher.result.value = "response"

\* C20: every outbound request but the first (page fetch, retry, headless
\* fetch, link verification) is sent at least the delay after the request
\* before it ended.
C20_DelayBetweenRequests ==
  (fetcher.last_request.kind # "none" /\ ~fetcher.last_request.first) =>
    fetcher.last_request.gap >= fetcher.config.delay

(***************************************************************************)
(* CrawlEventBroker on its own (events.py): subscribers of two crawl ids   *)
(* come and go and read their queues while events are published.  The      *)
(* lock covers subscribe, unsubscribe and the first statement of publish;  *)
(* the put_nowait calls of publish run outside it, one step each.          *)
(***************************************************************************)
BrokerInit ==
  /\ JobIdle
  /\ analyzer = NotInUse
  /\ proxy_pool = NotInUse
  /\ fetcher = NotInUse
  /\ broker = NewBroker
  /\ stream = NotInUse

\* the n-th event published on the broker
BrokerEvent(crawl_id, n) ==
  [type |-> "crawl_progress", crawl_id |-> crawl_id, pages_processed |-> n]

\* the queues subscribed with crawl_id whose unsubscribe has not returned
Subscribed(crawl_id) ==
  {c \in 1..Len(broker.queues) :
     broker.queues[c].crawl_id = crawl_id /\ ~broker.queues[c].unsubscribed}

BrokerSubscribe(crawl_id) ==
  /\ Len(broker.queues) < MaxChannels
  /\ broker' = subscribe(broker, crawl_id)
  /\ UNCHANGED <<job, analyzer, proxy_pool, fetcher, stream>>

\* the finally block of the stream's generator: unsubscribe(crawl_id, subscriber)
\* with the crawl id the queue was subscribed with
BrokerUnsubscribe(c) ==
  /\ c \in 1..Len(broker.queues)
  /\ ~broker.queues[c].unsubscribed
  /\ broker' = unsubscribe(broker, broker.queues[c].crawl_id, c)
  /\ UNCHANGED <<job, analyzer, proxy_pool, fetcher, stream>>

\* publish, first statement: copy the list under the lock
PublishBegin(crawl_id) ==
  /\ ~broker.publishing.active
  /\ broker.published < MaxPublishes
  /\ broker' = [broker EXCEPT
                  !.published = @ + 1,
                  !.publishing = [active |-> TRUE,
                                  event |-> BrokerEvent(crawl_id, broker.published + 1),
                                  todo |-> snapshot(broker, crawl_id),
                                  subscribed |-> Subscribed(crawl_id)]]
  /\ UNCHANGED <<job, analyzer, proxy_pool, fetcher, stream>>

\* a put that waits for the queue to be drained
PublishPutBlocking ==
  /\ broker.publishing.active
  /\ broker.publishing.todo # <<>>
  /\ broker.queues[Head(broker.publishing.todo)].items = <<>>
  /\ broker' = [broker EXCEPT
                  !.queues[Head(broker.publishing.todo)] =
                     put_nowait(@, broker.publishing.event),
                  !.publishing.todo = Tail(@)]
  /\ UNCHANGED <<job, analyzer, proxy_pool, fetcher, stream>>

\* publish, one iteration of `for subscriber in subscribers`
PublishPut ==
  /\ broker.publishing.active
  /\ broker.publishing.todo # <<>>
  /\ broker' = [broker EXCEPT
                  !.queues[Head(broker.publishing.todo)] =
                     put_nowait(@, broker.publishing.event),
                  !.publishing.todo = Tail(@)]
  /\ UNCHANGED <<job, analyzer, proxy_pool, fetcher, stream>>

\* publish returns
PublishReturn ==
  /\ broker.publishing.active
  /\ broker.publishing.todo = <<>>
  /\ broker' = [broker EXCEPT
                  !.returned = @ \cup {[event |-> broker.publishing.event,
                                        subscribed |-> broker.publishing.subscribed]},
                  !.publishing = NoPublish]
  /\ UNCHANGED <<job, analyzer, proxy_pool, fetcher, stream>>

\* the subscriber's subscriber.get(True, 10) while it is attached
SubscriberGet(c) ==
  /\ c \in 1..Len(broker.queues)
  /\ ~broker.queues[c].unsubscribed
  /\ broker.queues[c].items # <<>>
  /\ broker' = [broker EXCEPT !.queues[c].items = Tail(@)]
  /\ UNCHANGED <<job, analyzer, proxy_pool, fetcher, stream>>

BrokerNext ==
  \/ \E crawl_id \in CrawlIds : BrokerSubscribe(crawl_id)
  \/ \E c \in 1..MaxChannels : BrokerUnsubscribe(c)
  \/ \E crawl_id \in CrawlIds : PublishBegin(crawl_id)
  \/ PublishPut
  \/ PublishReturn
  \/ \E c \in 1..MaxChannels : SubscriberGet(c)

BrokerSpec == BrokerInit /\ [][BrokerNext]_vars

\* a publish call that has started keeps running; nothing is assumed about
\* the subscribers
BrokerLiveSpec ==
  BrokerInit /\ [][BrokerNext]_vars /\ WF_vars(PublishPut) /\ WF_vars(PublishReturn)

\* how often event occurs in the sequence
Occurrences(event, seq) == Cardinality({i \in 1..Len(seq) : seq[i] = event})

\* C21: once publish(job_id, event) has returned, the event was put exactly
\* once on every queue that was subscribed to job_id when the publish took
\* its copy of the list and on no other queue; a queue only ever holds events
\* of the job id it was subscribed with.
C21_FanOutToCurrentSubscribers ==
  /\ \A r \in broker.returned : \A c \in 1..Len(broker.queues) :
       Occurrences(r.event, broker.queues[c].put) = IF c \in r.subscribed THEN 1 ELSE 0
  /\ \A c \in 1..Len(broker.queues) : \A i \in 1..Len(broker.queues[c].put) :
       broker.queues[c].put[i].crawl_id = broker.queues[c].crawl_id

\* an event went to two subscribers of its job while a subscriber of the
\* other job and none of its own got nothing
C21_Witness ==
  \E r \in broker.returned :
    /\ Cardinality(r.subscribed) = 2
    /\ \E c \in 1..Len(broker.queues) :
         /\ broker.queues[c].crawl_id # r.event.crawl_id
         /\ ~broker.queues[c].unsubscribed
         /\ broker.queues[c].put = <<>>

\* C22: a publish call always returns, whatever its subscribers have left
\* unread, and every queue of the copy was tried on its own: the event is
\* either on the queue or was dropped for that queue alone.
C22_PublishNeverBlocks ==
  /\ [](\A r \in broker.returned : \A c \in r.subscribed :
          Occurrences(r.event, broker.queues[c].put)
            + Occurrences(r.event, broker.queues[c].dropped) = 1)
  /\ (broker.publishing.active ~> ~broker.publishing.active)

\* two events published to a subscriber that never read anything and to one
\* that read both
C22_Witness ==
  /\ Cardinality(broker.returned) = MaxPublishes
  /\ \E c, d \in 1..Len(broker.queues) :
       /\ Len(broker.queues[c].items) = MaxPublishes
       /\ Len(broker.queues[d].put) = MaxPublishes
       /\ broker.queues[d].items = <<>>

\* C27: no event is put on a queue whose unsubscribe call has returned.
C27_NothingAfterUnsubscribe ==
  \A c \in 1..Len(broker.queues) : broker.queues[c].late = <<>>
(***************************************************************************)
(* The progress stream (api/endpoints/crawls.py, stream_crawl_events): one *)
(* client of the job's event stream while run_crawl runs.  The endpoint    *)
(* reads the Crawl row in its own session, so it sees what run_crawl has   *)
(* committed.  A keep-alive comment is no event and changes nothing.       *)
(***************************************************************************)
StreamInit ==
  /\ JobIdle
  /\ analyzer = NotInUse
  /\ proxy_pool = NotInUse
  /\ fetcher = NotInUse
  /\ broker = NewBroker
  /\ stream = NotInUse

\* crawl = session.get(Crawl, crawl_id) of the request
StreamOpen ==
  /\ stream = NotInUse
  /\ stream' = [in_use |-> TRUE, pc |-> "opened", crawl |-> db.crawl, subscriber |-> 0,
                attached_at |-> [pages_processed |-> 0, issues_found |-> 0,
                                 status |-> "none"],
                first |-> [type |-> "none"], yielded |-> {}]
  /\ UNCHANGED <<job, analyzer, proxy_pool, fetcher, broker>>

\* `crawl.total_pages or 0`
OrZero(n) == IF n = None THEN 0 ELSE n

\* the snapshot event of the generator
initial_event(c) ==
  [type |-> "snapshot", crawl_id |-> CrawlId, status |-> c.status,
   pages_processed |-> OrZero(c.total_pages), issues_found |-> OrZero(c.issues_count),
   error_count |-> 0, current_url |-> None, ts |-> TRUE]

\* event["ts"] = datetime.utcnow().isoformat()
WithTs(event) ==
  [f \in DOMAIN event \cup {"ts"} |-> IF f = "ts" THEN TRUE ELSE event[f]]

\* what the client sees of one `yield _format_sse(event)`
Yield(st, event) ==
  [st EXCEPT !.first = IF st.first.type = "none" THEN event ELSE @,
             !.yielded = @ \cup {[type |-> event.type, fields |-> DOMAIN event]}]

\* the generator starts: subscribe, yield the snapshot
StreamSubscribe ==
  /\ stream.in_use /\ stream.pc = "opened"
  /\ broker' = subscribe(broker, CrawlId)
  /\ stream' = [Yield(stream, initial_event(stream.crawl)) EXCEPT
                  !.pc = "attached",
                  !.subscriber = Len(broker.queues) + 1,
                  !.attached_at = [pages_processed |-> pages_processed,
                                   issues_found |-> issues_found,
                                   status |-> crawl.status]]
  /\ UNCHANGED <<job, analyzer, proxy_pool, fetcher>>

\* one pass of the loop with an event on the queue: get, stamp, yield
StreamGet ==
  /\ stream.in_use /\ stream.pc = "attached"
  /\ broker.queues[stream.subscriber].items # <<>>
  /\ stream' = Yield(stream, WithTs(Head(broker.queues[stream.subscriber].items)))
  /\ broker' = [broker EXCEPT !.queues[stream.subscriber].items = Tail(@)]
  /\ UNCHANGED <<job, analyzer, proxy_pool, fetcher>>

\* request.is_disconnected(): leave the loop, unsubscribe
StreamDisconnect ==
  /\ stream.in_use /\ stream.pc = "attached"
  /\ broker' = unsubscribe(broker, CrawlId, stream.subscriber)
  /\ stream' = [stream EXCEPT !.pc = "closed"]
  /\ UNCHANGED <<job, analyzer, proxy_pool, fetcher>>

\* the site of the job the stream is watched on: pages that link to the
\* start page or to nothing
StreamLinks == {<<>>, <<Url("https://", Bare, <<"/">>)>>}

StreamNext ==
  \/ \E max_pages \in {None, MaxPagesArg}, sitemap \in SitemapInputs :
       StartCrawl(max_pages, sitemap, FALSE)
  \/ DequeueVisited
  \/ \E resp \in FetchOutcomes : FetchFailed(resp)
  \/ \E resp \in FetchOutcomes, links \in StreamLinks : FetchPage(resp, links)
  \/ \E head \in HttpAnswers, get \in HttpAnswers : ProcessLink(head, get)
  \/ AttachLinkLists
  \/ Analyze
  \/ PersistIssue
  \/ FinishPage
  \/ Complete
  \/ Raise
  \/ Finally
  \/ StreamOpen
  \/ StreamSubscribe
  \/ StreamGet
  \/ StreamDisconnect

StreamSpec == StreamInit /\ [][StreamNext]_vars

\* C23: the first event a subscriber gets is the snapshot, and its
\* pages_processed and issues_found are the job's counters at the moment the
\* subscriber attached.
C23_SnapshotIsCurrentProgress ==
  (stream.in_use /\ stream.pc # "opened") =>
    /\ stream.first.type = "snapshot"
    /\ stream.first.pages_processed = stream.attached_at.pages_processed
    /\ stream.first.issues_found = stream.attached_at.issues_found

RequiredFields == {"type", "crawl_id", "pages_processed", "error_count", "current_url", "ts"}

\* C24: every event the subscriber gets has the fields type, crawl_id,
\* pages_processed, error_count, current_url and ts.
C24_EventsCarryAllFields ==
  stream.in_use => \A y \in stream.yielded : RequiredFields \subseteq y.fields
====
